---- MODULE Spec2Model ----
(***************************************************************************)
(* Tank-Mixing: the Tier-1 hydraulic mixing heuristic engine               *)
(* (src/src/engine.ts), the form and the import that feed it scenarios     *)
(* (src/unnamed/part_001, src/unnamed/part_000) and the sanity harness     *)
(* runEngineSanityChecks.                                                  *)
(*                                                                         *)
(* Numbers.  A JavaScript number is modelled as a record                   *)
(*   [k |-> "fin", n |-> numerator, d |-> denominator > 0]  (gcd reduced)  *)
(* or one of the IEEE specials PInf (+Infinity), NInf (-Infinity), NaN.    *)
(* Finite arithmetic is exact rational arithmetic: rounding and overflow   *)
(* of doubles are not modelled, and -0 is identified with +0.  The         *)
(* specials follow IEEE-754 as JavaScript exposes them (Infinity -         *)
(* Infinity = NaN, 0 * Infinity = NaN, x / 0 = +-Infinity, every           *)
(* comparison with NaN is false, Math.max / Math.min propagate NaN).       *)
(***************************************************************************)
EXTENDS Integers, Sequences, FiniteSets, TLC

\* ------------------------------------------------------------------ numbers

RECURSIVE Gcd(_, _)
Gcd(a, b) == IF b = 0 THEN a ELSE Gcd(b, a % b)

AbsInt(a) == IF a < 0 THEN -a ELSE a

\* The finite number n/d, reduced, the sign carried by the numerator.
R(n, d) ==
  LET s == IF d < 0 THEN -1 ELSE 1
      g == Gcd(AbsInt(n), AbsInt(d))
  IN  [k |-> "fin", n |-> (s * n) \div g, d |-> (s * d) \div g]

I(n) == [k |-> "fin", n |-> n, d |-> 1]

PInf == [k |-> "inf", n |-> 0, d |-> 1]
NInf == [k |-> "ninf", n |-> 0, d |-> 1]
NaN == [k |-> "nan", n |-> 0, d |-> 1]

\* A value read from a scenario may also be undefined (a missing property) or
\* null (what JSON makes of a non-finite number): as an operand undefined is
\* NaN and null is 0.
IsNaN(a) == a.k = "nan" \/ a.k = "undef"
IsFin(a) == a.k = "fin" \/ a.k = "null"
ToNumber(a) == IF a.k = "null" THEN [k |-> "fin", n |-> 0, d |-> 1] ELSE a

\* -1, 0, 1: the sign of a number that is not NaN.
Sgn(a) ==
  CASE a.k = "inf" -> 1
    [] a.k = "ninf" -> -1
    [] OTHER -> IF a.n > 0 THEN 1 ELSE IF a.n < 0 THEN -1 ELSE 0

BySign(s) == IF s > 0 THEN PInf ELSE NInf

\* Order of the fractions n1/d1 and n2/d2 (d1, d2 > 0) as -1, 0 or 1, by
\* continued fractions, so that no product leaves the 32-bit integers.
RECURSIVE CmpFrac(_, _, _, _)
CmpFrac(n1, d1, n2, d2) ==
  LET q1 == n1 \div d1
      q2 == n2 \div d2
      r1 == n1 % d1
      r2 == n2 % d2
  IN  IF q1 # q2 THEN (IF q1 < q2 THEN -1 ELSE 1)
      ELSE IF r1 = 0 THEN (IF r2 = 0 THEN 0 ELSE -1)
      ELSE IF r2 = 0 THEN 1
      ELSE CmpFrac(d2, r2, d1, r1)

\* a < b, a <= b, a > b, a >= b of JavaScript: false as soon as one is NaN.
Lt(a, b) ==
  /\ ~IsNaN(a) /\ ~IsNaN(b)
  /\ CASE a.k = "ninf" -> b.k # "ninf"
       [] a.k = "inf" -> FALSE
       [] b.k = "inf" -> TRUE
       [] b.k = "ninf" -> FALSE
       [] OTHER -> CmpFrac(a.n, a.d, b.n, b.d) < 0

Le(a, b) == ~IsNaN(a) /\ ~IsNaN(b) /\ ~Lt(b, a)
Gt(a, b) == Lt(b, a)
Ge(a, b) == Le(b, a)

Neg(a) ==
  CASE IsNaN(a) -> NaN
    [] a.k = "inf" -> NInf
    [] a.k = "ninf" -> PInf
    [] OTHER -> [k |-> "fin", n |-> -a.n, d |-> a.d]

Add(a, b) ==
  CASE IsNaN(a) \/ IsNaN(b) -> NaN
    [] ~IsFin(a) /\ ~IsFin(b) -> IF a.k = b.k THEN a ELSE NaN
    [] ~IsFin(a) -> a
    [] ~IsFin(b) -> b
    [] OTHER ->
         LET g == Gcd(a.d, b.d)
         IN  R(a.n * (b.d \div g) + b.n * (a.d \div g), (a.d \div g) * b.d)

Sub(a, b) == Add(a, Neg(b))

Mul(a, b) ==
  CASE IsNaN(a) \/ IsNaN(b) -> NaN
    [] ~IsFin(a) \/ ~IsFin(b) ->
         IF Sgn(a) = 0 \/ Sgn(b) = 0 THEN NaN ELSE BySign(Sgn(a) * Sgn(b))
    [] OTHER ->
         LET g1 == Gcd(AbsInt(a.n), b.d)
             g2 == Gcd(AbsInt(b.n), a.d)
         IN  R((a.n \div g1) * (b.n \div g2), (a.d \div g2) * (b.d \div g1))

\* a / b; a finite a over 0 is an infinity of a's sign (0 / 0 is NaN).
Div(a, b) ==
  CASE IsNaN(a) \/ IsNaN(b) -> NaN
    [] ~IsFin(a) /\ ~IsFin(b) -> NaN
    [] ~IsFin(a) -> BySign(Sgn(a) * (IF Sgn(b) < 0 THEN -1 ELSE 1))
    [] ~IsFin(b) -> I(0)
    [] b.n = 0 -> IF a.n = 0 THEN NaN ELSE BySign(Sgn(a))
    [] OTHER -> Mul(a, R(b.d, b.n))

\* Math.abs, Math.max, Math.min, Math.pow(x, 2)
MathAbs(a) == IF IsNaN(a) THEN NaN ELSE IF Sgn(a) < 0 THEN Neg(a) ELSE ToNumber(a)
MathMax(a, b) ==
  IF IsNaN(a) \/ IsNaN(b) THEN NaN ELSE IF Lt(a, b) THEN ToNumber(b) ELSE ToNumber(a)
MathMin(a, b) ==
  IF IsNaN(a) \/ IsNaN(b) THEN NaN ELSE IF Lt(b, a) THEN ToNumber(b) ELSE ToNumber(a)
Pow2(a) == Mul(a, a)

\* a is null or undefined (the ?? operator's test); Undef is the value read from
\* a missing property.
Undef == [k |-> "undef", n |-> 0, d |-> 1]
Nullish(a, dflt) == IF a.k = "undef" \/ a.k = "null" THEN dflt ELSE a

\* A quotient num / den that is kept unevaluated, [k, num, den], because its
\* reduced form leaves the 32-bit integers: k is the kind of the quotient as
\* IEEE division gives it, and a finite non-zero quotient keeps its two terms.
KindProxy(a) == IF IsFin(a) THEN I(Sgn(a)) ELSE a

Quot(num, den) ==
  LET q == Div(KindProxy(num), KindProxy(den))
  IN  IF IsFin(q) /\ q.n # 0
      THEN [k |-> "fin", num |-> num, den |-> den]
      ELSE [k |-> q.k, num |-> I(0), den |-> I(1)]

QZero == [k |-> "fin", num |-> I(0), den |-> I(1)]
QInf == [k |-> "inf", num |-> I(0), den |-> I(1)]

\* q > x for an unevaluated quotient q whose den is positive and a number x.
QGt(q, x) ==
  /\ q.k # "nan" /\ ~IsNaN(x)
  /\ CASE q.k = "inf" -> x.k # "inf"
       [] q.k = "ninf" -> FALSE
       [] x.k = "inf" -> FALSE
       [] x.k = "ninf" -> TRUE
       [] OTHER -> Gt(q.num, Mul(x, q.den))

\* q1 < q2 for two unevaluated quotients with positive den.
QLt(q1, q2) ==
  /\ q1.k # "nan" /\ q2.k # "nan"
  /\ CASE q1.k = "ninf" -> q2.k # "ninf"
       [] q1.k = "inf" -> FALSE
       [] q2.k = "inf" -> TRUE
       [] q2.k = "ninf" -> FALSE
       [] Sgn(q1.num) # Sgn(q2.num) -> Sgn(q1.num) < Sgn(q2.num)
       [] Sgn(q1.num) = 0 -> FALSE
       [] Sgn(q1.num) > 0 -> Lt(Div(q1.num, q2.num), Div(q1.den, q2.den))
       [] OTHER -> Gt(Div(q1.num, q2.num), Div(q1.den, q2.den))

\* ------------------------------------------------------------------ engine

G == R(981, 100)
PI == R(355, 113)

computeNozzleArea(d_mm) ==
  LET d_m == Div(d_mm, I(1000))
  IN  Mul(PI, Pow2(Div(d_m, I(2))))

computeTankVolumeCyl(D_m, H_m) == Mul(Div(Mul(PI, Pow2(D_m)), I(4)), H_m)

\* computeInletVelocity returning the flow per inlet, not divided by the area.
computeInletVelocityPerInlet(flow_Lps, area_m2, count) ==
  IF Le(area_m2, I(0)) \/ Le(count, I(0)) THEN I(0)
  ELSE Div(Div(flow_Lps, I(1000)), count)

computeInletVelocity(flow_Lps, area_m2, count) ==
  IF Le(area_m2, I(0)) \/ Le(count, I(0)) THEN I(0)
  ELSE LET flow_m3s == Div(flow_Lps, I(1000))
           flowPerInlet == Div(flow_m3s, count)
       IN  Div(flowPerInlet, area_m2)

estimateBetaPerC(tempC) == R(21, 100000)

\* Vjet / Math.sqrt(G * d_nozzle_m), kept as the pair (Vjet, G * d_nozzle_m):
\* the square root of a positive number has the kind of its argument.
computeFroudeInlet(Vjet, d_nozzle_m) ==
  IF Le(d_nozzle_m, I(0)) THEN QZero
  ELSE Quot(Vjet, Mul(G, d_nozzle_m))

computeTurnoverRatio(fillVol_m3, tankVol_m3) ==
  IF Le(tankVol_m3, I(0)) THEN I(0) ELSE Div(fillVol_m3, tankVol_m3)

createDefaultScenario ==
  [ id |-> "default-1",
    name |-> "Baseline Scenario",
    tank |-> [ shape |-> "cylindrical",
               diameter_m |-> I(10),
               water_depth_m |-> I(5),
               operating_storage_kL |-> I(350),
               reserve_unusable_kL |-> I(40) ],
    inlet |-> [ count |-> I(1),
                elevation_from_floor_m |-> R(1, 2),
                nozzle_diameter_mm |-> I(150),
                orientation |-> "radial",
                inclination_deg |-> I(0) ],
    outlet |-> [ elevation_from_floor_m |-> R(1, 5),
                 orientation |-> "opposite" ],
    operation |-> [ inflow_Lps |-> I(20),
                    fill_event_volume_kL |-> I(100),
                    events_per_day |-> I(1) ],
    water |-> [ temperature_inflow_min_C |-> I(15),
                temperature_inflow_max_C |-> I(18),
                temperature_tank_initial_C |-> I(22) ],
    options |-> [ target_mixed_fraction |-> R(95, 100),
                  conservatism |-> "normal",
                  ri_length_scale |-> "depth_quarter",
                  target_velocity_m_s |-> R(8, 10),
                  ri_threshold_warn |-> I(1),
                  ri_threshold_fail |-> I(5),
                  tor_threshold_warn |-> R(3, 10),
                  layout_score_warn |-> I(30),
                  layout_score_fail |-> I(65),
                  risk_vertical_proximity |-> I(25),
                  risk_high_elevation |-> I(35),
                  risk_orient_radial |-> I(15),
                  risk_orient_upward |-> I(5),
                  credit_orient_tangential |-> I(10),
                  credit_orient_downward |-> I(5),
                  credit_outlet_opposite |-> I(5),
                  credit_multiple_inlets |-> I(10) ] ]

BaseValidityFlags ==
  << "Tier-1 heuristics; not CFD",
     "Cylindrical tank model",
     "Assumes reserve volume participates in mixing",
     "Simplified thermal stratification" >>

(***************************************************************************)
(* analyzeScenario is written as its seven sections applied in order.  A   *)
(* section takes the record c of the locals computed so far (c.scenario is *)
(* the argument) and returns it with its own locals added, named as in the *)
(* source.                                                                 *)
(***************************************************************************)

\* --- 1. Volume & Geometry Checks ---
VolumeFlags(v_eff_m3, v_geom_m3) ==
  (IF Gt(v_eff_m3, Mul(v_geom_m3, R(101, 100)))
   THEN << "Warning: Specified volumes exceed geometric capacity." >>
   ELSE << >>) \o
  (IF Le(v_eff_m3, I(0))
   THEN << "Warning: No operating/reserve storage defined. Using geometric volume for turnover metrics." >>
   ELSE << >>)

ElevationRecs(tank, inlet, outlet) ==
  (IF Gt(inlet.elevation_from_floor_m, tank.water_depth_m)
   THEN << "err-in-elev" >> ELSE << >>) \o
  (IF Gt(outlet.elevation_from_floor_m, tank.water_depth_m)
   THEN << "err-out-elev" >> ELSE << >>)

\* VolumeLocals taking the effective volume for the turnover whatever it is.
VolumeLocalsEffectiveOnly(scenario, v_geom_m3, v_eff_m3) ==
  [ scenario |-> scenario,
    v_geom_m3 |-> v_geom_m3,
    v_eff_m3 |-> v_eff_m3,
    volumeForTurnover |-> v_eff_m3,
    validityFlags |-> BaseValidityFlags \o VolumeFlags(v_eff_m3, v_geom_m3),
    recs |-> ElevationRecs(scenario.tank, scenario.inlet, scenario.outlet) ]

VolumeLocals(scenario, v_geom_m3, v_eff_m3) ==
  [ scenario |-> scenario,
    v_geom_m3 |-> v_geom_m3,
    v_eff_m3 |-> v_eff_m3,
    volumeForTurnover |-> IF Gt(v_eff_m3, I(0)) THEN v_eff_m3 ELSE v_geom_m3,
    validityFlags |-> BaseValidityFlags \o VolumeFlags(v_eff_m3, v_geom_m3),
    recs |-> ElevationRecs(scenario.tank, scenario.inlet, scenario.outlet) ]

VolumeChecks(scenario) ==
  VolumeLocals(scenario,
    computeTankVolumeCyl(scenario.tank.diameter_m, scenario.tank.water_depth_m),
    Add(MathMax(I(0), scenario.tank.operating_storage_kL),
        MathMax(I(0), scenario.tank.reserve_unusable_kL)))

\* --- 2. Hydraulics & Thermal ---
\* DeltaTvsTank taking the spread of the inflow temperatures.
DeltaTvsTankRange(water) ==
  MathAbs(Sub(water.temperature_inflow_max_C, water.temperature_inflow_min_C))

DeltaTvsTank(water) ==
  MathMax(
    MathAbs(Sub(water.temperature_inflow_max_C, water.temperature_tank_initial_C)),
    MathAbs(Sub(water.temperature_inflow_min_C, water.temperature_tank_initial_C)))

\* HydraulicsLocals with the turnover counted per day: every fill event of the
\* day contributes.
HydraulicsLocalsDaily(c, d_noz_m, Vjet) ==
  [ d_noz_m |-> d_noz_m,
    Vjet |-> Vjet,
    TOR |-> Mul(c.scenario.operation.events_per_day,
                computeTurnoverRatio(c.scenario.operation.fill_event_volume_kL,
                                     c.volumeForTurnover)),
    Fr |-> computeFroudeInlet(Vjet, d_noz_m),
    dt_range |-> MathAbs(Sub(c.scenario.water.temperature_inflow_max_C,
                             c.scenario.water.temperature_inflow_min_C)),
    dt_vs_tank |-> DeltaTvsTank(c.scenario.water),
    beta |-> estimateBetaPerC(c.scenario.water.temperature_tank_initial_C) ] @@ c

HydraulicsLocals(c, d_noz_m, Vjet) ==
  [ d_noz_m |-> d_noz_m,
    Vjet |-> Vjet,
    TOR |-> computeTurnoverRatio(c.scenario.operation.fill_event_volume_kL,
                                 c.volumeForTurnover),
    Fr |-> computeFroudeInlet(Vjet, d_noz_m),
    dt_range |-> MathAbs(Sub(c.scenario.water.temperature_inflow_max_C,
                             c.scenario.water.temperature_inflow_min_C)),
    dt_vs_tank |-> DeltaTvsTank(c.scenario.water),
    beta |-> estimateBetaPerC(c.scenario.water.temperature_tank_initial_C) ] @@ c

Hydraulics(c) ==
  HydraulicsLocals(c,
    Div(c.scenario.inlet.nozzle_diameter_mm, I(1000)),
    computeInletVelocity(c.scenario.operation.inflow_Lps,
                         computeNozzleArea(c.scenario.inlet.nozzle_diameter_mm),
                         c.scenario.inlet.count))

\* --- 3. Richardson Calculation ---
\* L_buoyancy by options.ri_length_scale, then floored at 0.05.
LengthScalePolicy(tank, d_noz_m, options) ==
  IF options.ri_length_scale = "depth_quarter"
  THEN MathMax(R(5, 100), MathMin(I(2), Mul(R(25, 100), tank.water_depth_m)))
  ELSE IF options.ri_length_scale = "tank_half"
  THEN Div(MathMin(tank.diameter_m, tank.water_depth_m), I(2))
  ELSE d_noz_m

LengthScale(tank, d_noz_m, options) ==
  MathMax(LengthScalePolicy(tank, d_noz_m, options), R(5, 100))

RiOver(ri_num, ri_den) ==
  [Ri |-> Quot(ri_num, ri_den), ri_num |-> ri_num, ri_den |-> ri_den]

\* The priority rules with the temperature difference left out of ri_num.
RichardsonRawWithoutDeltaT(Vjet, dt_vs_tank, beta, L_buoyancy) ==
  IF Le(Vjet, R(1, 10000))
  THEN [Ri |-> QInf, ri_num |-> I(0), ri_den |-> I(0)]
  ELSE IF Lt(dt_vs_tank, R(1, 100))
  THEN [Ri |-> QZero, ri_num |-> I(0), ri_den |-> Pow2(Vjet)]
  ELSE RiOver(Mul(Mul(G, beta), L_buoyancy), Pow2(Vjet))

\* The priority rules with the length scale left out of ri_num.
RichardsonRawWithoutLength(Vjet, dt_vs_tank, beta, L_buoyancy) ==
  IF Le(Vjet, R(1, 10000))
  THEN [Ri |-> QInf, ri_num |-> I(0), ri_den |-> I(0)]
  ELSE IF Lt(dt_vs_tank, R(1, 100))
  THEN [Ri |-> QZero, ri_num |-> I(0), ri_den |-> Pow2(Vjet)]
  ELSE RiOver(Mul(Mul(G, beta), dt_vs_tank), Pow2(Vjet))

\* Ri, ri_num, ri_den by the three priority rules, before the NaN check.
RichardsonRaw(Vjet, dt_vs_tank, beta, L_buoyancy) ==
  IF Le(Vjet, R(1, 10000))
  THEN [Ri |-> QInf, ri_num |-> I(0), ri_den |-> I(0)]
  ELSE IF Lt(dt_vs_tank, R(1, 100))
  THEN [Ri |-> QZero, ri_num |-> I(0), ri_den |-> Pow2(Vjet)]
  ELSE RiOver(Mul(Mul(Mul(G, beta), dt_vs_tank), L_buoyancy), Pow2(Vjet))

\* The NaN check left out.
ValidateRiUnchecked(raw) == [Ri |-> raw.Ri, flags |-> << >>]

\* The NaN check: the Richardson number kept and the flag appended.
ValidateRi(raw) ==
  IF raw.Ri.k = "nan"
  THEN [Ri |-> QZero,
        flags |-> << "Error: Calculated Richardson number is NaN. Check input values." >>]
  ELSE [Ri |-> raw.Ri, flags |-> << >>]

RichardsonLocals(c, L_buoyancy, raw, val) ==
  [ L_buoyancy |-> L_buoyancy,
    Ri |-> val.Ri,
    ri_num |-> raw.ri_num,
    ri_den |-> raw.ri_den,
    validityFlags |-> c.validityFlags \o val.flags ] @@ c

RichardsonValidated(c, L_buoyancy, raw) ==
  RichardsonLocals(c, L_buoyancy, raw, ValidateRi(raw))

RichardsonWith(c, L_buoyancy) ==
  RichardsonValidated(c, L_buoyancy,
    RichardsonRaw(c.Vjet, c.dt_vs_tank, c.beta, L_buoyancy))

Richardson(c) ==
  RichardsonWith(c, LengthScale(c.scenario.tank, c.d_noz_m, c.scenario.options))

\* --- 4. Vertical Mixing Status ---
\* A. Penetration / elevation check.
\* JetPenetrationReach taking the stratification as stable on the Richardson
\* number alone.
JetPenetrationReachWithoutDeltaT(dt_vs_tank, Ri, inlet, tank, options) ==
  IF QGt(Ri, options.ri_threshold_warn)
  THEN IF Gt(inlet.elevation_from_floor_m, Mul(R(1, 2), tank.water_depth_m))
       THEN "upper_layer_only"
       ELSE IF Gt(inlet.elevation_from_floor_m, Mul(R(25, 100), tank.water_depth_m))
       THEN "partial"
       ELSE "bottom"
  ELSE "bottom"

JetPenetrationReach(dt_vs_tank, Ri, inlet, tank, options) ==
  IF Ge(dt_vs_tank, I(2)) /\ QGt(Ri, options.ri_threshold_warn)
  THEN IF Gt(inlet.elevation_from_floor_m, Mul(R(1, 2), tank.water_depth_m))
       THEN "upper_layer_only"
       ELSE IF Gt(inlet.elevation_from_floor_m, Mul(R(25, 100), tank.water_depth_m))
       THEN "partial"
       ELSE "bottom"
  ELSE "bottom"

\* B. The rule chain on the severity variable; st = [status, recs].
\* MomentumCheck failing below a quarter of the target.
MomentumCheckQuarter(st, Vjet, v_target) ==
  IF Lt(Vjet, Mul(R(1, 4), v_target))
  THEN [status |-> "FAIL", recs |-> Append(st.recs, "vert-mom-fail")]
  ELSE IF Lt(Vjet, v_target)
  THEN [status |-> "WARN", recs |-> Append(st.recs, "vert-mom-warn")]
  ELSE st

MomentumCheck(st, Vjet, v_target) ==
  IF Lt(Vjet, Mul(R(1, 2), v_target))
  THEN [status |-> "FAIL", recs |-> Append(st.recs, "vert-mom-fail")]
  ELSE IF Lt(Vjet, v_target)
  THEN [status |-> "WARN", recs |-> Append(st.recs, "vert-mom-warn")]
  ELSE st

\* StratificationCheck going on to the Richardson thresholds after an
\* upper-layer reach has set FAIL.
StratificationCheckUnskipped(st, jetPenetrationReach, Ri, options) ==
  IF st.status # "FAIL"
  THEN IF QGt(Ri, options.ri_threshold_fail)
       THEN [status |-> "FAIL",
             recs |-> (IF jetPenetrationReach = "upper_layer_only"
                       THEN Append(st.recs, "vert-strat-fail") ELSE st.recs)
                      \o << "vert-ri-fail" >>]
       ELSE IF QGt(Ri, options.ri_threshold_warn)
       THEN [status |-> IF jetPenetrationReach = "upper_layer_only" THEN "FAIL" ELSE "WARN",
             recs |-> (IF jetPenetrationReach = "upper_layer_only"
                       THEN Append(st.recs, "vert-strat-fail") ELSE st.recs)
                      \o << "vert-ri-warn" >>]
       ELSE st
  ELSE st

\* TurnoverCheck escalating a WARN to FAIL.
TurnoverCheckEscalating(st, TOR, options) ==
  IF Lt(TOR, options.tor_threshold_warn) /\ st.status # "FAIL"
  THEN [status |-> IF st.status = "PASS" THEN "WARN" ELSE "FAIL",
        recs |-> Append(st.recs, "vert-tor")]
  ELSE st

\* StratificationCheck asking the warning question before the failure question.
StratificationCheckWarnFirst(st, jetPenetrationReach, Ri, options) ==
  IF st.status # "FAIL"
  THEN IF jetPenetrationReach = "upper_layer_only"
       THEN [status |-> "FAIL", recs |-> Append(st.recs, "vert-strat-fail")]
       ELSE IF QGt(Ri, options.ri_threshold_warn)
       THEN [status |-> "WARN", recs |-> Append(st.recs, "vert-ri-warn")]
       ELSE IF QGt(Ri, options.ri_threshold_fail)
       THEN [status |-> "FAIL", recs |-> Append(st.recs, "vert-ri-fail")]
       ELSE st
  ELSE st

StratificationCheck(st, jetPenetrationReach, Ri, options) ==
  IF st.status # "FAIL"
  THEN IF jetPenetrationReach = "upper_layer_only"
       THEN [status |-> "FAIL", recs |-> Append(st.recs, "vert-strat-fail")]
       ELSE IF QGt(Ri, options.ri_threshold_fail)
       THEN [status |-> "FAIL", recs |-> Append(st.recs, "vert-ri-fail")]
       ELSE IF QGt(Ri, options.ri_threshold_warn)
       THEN [status |-> IF st.status = "WARN" THEN "WARN" ELSE "WARN",
             recs |-> Append(st.recs, "vert-ri-warn")]
       ELSE st
  ELSE st

\* TurnoverCheck assigning WARN whatever the severity reached so far.
TurnoverCheckReset(st, TOR, options) ==
  IF Lt(TOR, options.tor_threshold_warn)
  THEN [status |-> "WARN", recs |-> Append(st.recs, "vert-tor")]
  ELSE st

TurnoverCheck(st, TOR, options) ==
  IF Lt(TOR, options.tor_threshold_warn) /\ st.status # "FAIL"
  THEN [status |-> IF st.status = "PASS" THEN "WARN" ELSE st.status,
        recs |-> Append(st.recs, "vert-tor")]
  ELSE st

VerticalLocals(c, v_target, jetPenetrationReach, st) ==
  [ v_target |-> v_target,
    jetPenetrationReach |-> jetPenetrationReach,
    verticalStatus |-> st.status,
    recs |-> st.recs ] @@ c

VerticalWith(c, v_target, jetPenetrationReach) ==
  VerticalLocals(c, v_target, jetPenetrationReach,
    TurnoverCheck(
      StratificationCheck(
        MomentumCheck([status |-> "PASS", recs |-> c.recs], c.Vjet, v_target),
        jetPenetrationReach, c.Ri, c.scenario.options),
      c.TOR, c.scenario.options))

Vertical(c) ==
  VerticalWith(c,
    Nullish(c.scenario.options.target_velocity_m_s, R(8, 10)),
    JetPenetrationReach(c.dt_vs_tank, c.Ri, c.scenario.inlet, c.scenario.tank,
                        c.scenario.options))

\* --- 5. Horizontal / Layout Status ---
\* PlusIf keeping the running score inside [0, 100] after every term.
PlusIfClamped(cond, hScore, w) ==
  IF cond THEN MathMax(I(0), MathMin(I(100), Add(hScore, w))) ELSE hScore

\* if (cond) hScore += w;  and  if (cond) hScore -= w;
PlusIf(cond, hScore, w) == IF cond THEN Add(hScore, w) ELSE hScore
MinusIf(cond, hScore, w) == IF cond THEN Sub(hScore, w) ELSE hScore

DistInOut(inlet, outlet) ==
  MathAbs(Sub(inlet.elevation_from_floor_m, outlet.elevation_from_floor_m))

VerticallyClose(tank, inlet, outlet) ==
  Lt(DistInOut(inlet, outlet), Mul(R(15, 100), tank.water_depth_m))

\* The layout score before clamping, term by term in code order.
LayoutScoreSum(tank, inlet, outlet, options) ==
  MinusIf(Ge(inlet.count, I(2)),
    MinusIf(outlet.orientation = "opposite",
      PlusIf(inlet.orientation = "upward",
        MinusIf(inlet.orientation = "downward",
          MinusIf(inlet.orientation = "tangential",
            PlusIf(inlet.orientation = "radial",
              PlusIf(/\ Gt(inlet.elevation_from_floor_m, Mul(R(6, 10), tank.water_depth_m))
                     /\ Gt(outlet.elevation_from_floor_m, Mul(R(6, 10), tank.water_depth_m)),
                PlusIf(VerticallyClose(tank, inlet, outlet),
                  I(0),
                  options.risk_vertical_proximity),
                options.risk_high_elevation),
              options.risk_orient_radial),
            options.credit_orient_tangential),
          options.credit_orient_downward),
        options.risk_orient_upward),
      options.credit_outlet_opposite),
    options.credit_multiple_inlets)

\* hScore = Math.max(0, Math.min(100, hScore))
ClampScore(h) == MathMax(I(0), MathMin(I(100), h))

\* HorizontalStatus with strict comparisons: a score equal to a threshold
\* does not trigger it.
HorizontalStatusAbove(hScore, options) ==
  IF Gt(hScore, options.layout_score_fail) THEN "FAIL"
  ELSE IF Gt(hScore, options.layout_score_warn) THEN "WARN"
  ELSE "PASS"

HorizontalStatus(hScore, options) ==
  IF Ge(hScore, options.layout_score_fail) THEN "FAIL"
  ELSE IF Ge(hScore, options.layout_score_warn) THEN "WARN"
  ELSE "PASS"

\* HorizontalRecs calling out the proximity only when the layout fails.
HorizontalRecsOnFail(horizontalStatus, tank, inlet, outlet) ==
  IF horizontalStatus # "PASS"
  THEN << "horiz-main" >> \o
       (IF horizontalStatus = "FAIL" /\ VerticallyClose(tank, inlet, outlet)
        THEN << "horiz-prox" >> ELSE << >>)
  ELSE << >>

HorizontalRecs(horizontalStatus, tank, inlet, outlet) ==
  IF horizontalStatus # "PASS"
  THEN << "horiz-main" >> \o
       (IF VerticallyClose(tank, inlet, outlet) THEN << "horiz-prox" >> ELSE << >>)
  ELSE << >>

HorizontalLocals(c, hScore, horizontalStatus) ==
  [ hScore |-> hScore,
    horizontalStatus |-> horizontalStatus,
    recs |-> c.recs \o HorizontalRecs(horizontalStatus, c.scenario.tank,
                                      c.scenario.inlet, c.scenario.outlet) ] @@ c

HorizontalWith(c, hScore) ==
  HorizontalLocals(c, hScore, HorizontalStatus(hScore, c.scenario.options))

Horizontal(c) ==
  HorizontalWith(c,
    ClampScore(LayoutScoreSum(c.scenario.tank, c.scenario.inlet, c.scenario.outlet,
                              c.scenario.options)))

\* --- 6. Recommendations ---
\* max_d_m_sq dividing the flow by the inlet count as it is.
max_d_m_sqPerCount(operation, inlet, v_target) ==
  LET q_m3s == Div(operation.inflow_Lps, I(1000))
      q_per_inlet == Div(q_m3s, inlet.count)
      x == Div(Mul(I(4), q_per_inlet), Mul(PI, v_target))
  IN  IF IsNaN(x) \/ Lt(x, I(0)) THEN NaN ELSE x

\* q_m3s, q_per_inlet and max_d_m of the rec-nozzle block; max_d_m is kept as
\* its square: Math.sqrt(x) squared is x, and NaN for a negative x.
max_d_m_sq(operation, inlet, v_target) ==
  LET q_m3s == Div(operation.inflow_Lps, I(1000))
      q_per_inlet == Div(q_m3s, MathMax(I(1), inlet.count))
      x == Div(Mul(I(4), q_per_inlet), Mul(PI, v_target))
  IN  IF IsNaN(x) \/ Lt(x, I(0)) THEN NaN ELSE x

\* The greatest integer in lo..hi whose square is at most n (lo * lo <= n).
RECURSIVE IsqrtBetween(_, _, _)
IsqrtBetween(n, lo, hi) ==
  IF lo = hi THEN lo
  ELSE LET mid == (lo + hi + 1) \div 2
       IN  IF mid * mid <= n THEN IsqrtBetween(n, mid, hi)
           ELSE IsqrtBetween(n, lo, mid - 1)

\* (max_d_m * 1000).toFixed(0), the number the rec-nozzle message names: the
\* integer nearest to 1000 * sqrt(dsq), halves up; Infinity and NaN print as
\* themselves.  X is that integer iff (2X - 1)^2 <= 4000000 * dsq < (2X + 1)^2.
toFixed0_mm(dsq) ==
  IF ~IsFin(dsq) THEN dsq
  ELSE LET y == Mul(I(4000000), dsq)
       IN  I((IsqrtBetween(y.n \div y.d, 0, 46340) + 1) \div 2)

DesignRecs(Vjet, v_target, inlet, tank, verticalStatus) ==
  (IF Lt(Vjet, v_target) THEN << "rec-nozzle" >> ELSE << >>) \o
  (IF /\ Gt(inlet.elevation_from_floor_m, Mul(R(25, 100), tank.water_depth_m))
      /\ verticalStatus # "PASS"
   THEN << "rec-elev" >> ELSE << >>)

Recommendations(c) ==
  [ recs |-> c.recs \o DesignRecs(c.Vjet, c.v_target, c.scenario.inlet,
                                  c.scenario.tank, c.verticalStatus) ] @@ c

\* --- 7. Aggregation ---
\* OverallStatus with the FAIL test requiring both statuses to fail.
OverallStatusBothFail(verticalStatus, horizontalStatus) ==
  IF verticalStatus = "FAIL" /\ horizontalStatus = "FAIL" THEN "FAIL"
  ELSE IF verticalStatus = "WARN" \/ horizontalStatus = "WARN" THEN "WARN"
  ELSE "PASS"

OverallStatus(verticalStatus, horizontalStatus) ==
  IF verticalStatus = "FAIL" \/ horizontalStatus = "FAIL" THEN "FAIL"
  ELSE IF verticalStatus = "WARN" \/ horizontalStatus = "WARN" THEN "WARN"
  ELSE "PASS"

\* DominantRisk naming the momentum whenever the vertical status is raised.
DominantRiskMomentumAlways(overallStatus, verticalStatus, Vjet, v_target, Ri, options) ==
  IF overallStatus # "PASS"
  THEN IF verticalStatus = "FAIL" \/ verticalStatus = "WARN"
       THEN "insufficient_momentum"
       ELSE "short_circuit"
  ELSE "none"

\* DominantRisk asking the buoyancy question before the momentum question.
DominantRiskBuoyancyFirst(overallStatus, verticalStatus, Vjet, v_target, Ri, options) ==
  IF overallStatus # "PASS"
  THEN IF verticalStatus = "FAIL" \/ verticalStatus = "WARN"
       THEN IF QGt(Ri, options.ri_threshold_warn) THEN "buoyancy"
            ELSE "insufficient_momentum"
       ELSE "short_circuit"
  ELSE "none"

DominantRisk(overallStatus, verticalStatus, Vjet, v_target, Ri, options) ==
  IF overallStatus # "PASS"
  THEN IF verticalStatus = "FAIL" \/ verticalStatus = "WARN"
       THEN IF Lt(Vjet, Mul(R(1, 2), v_target)) THEN "insufficient_momentum"
            ELSE IF QGt(Ri, options.ri_threshold_warn) THEN "buoyancy"
            ELSE "insufficient_momentum"
       ELSE "short_circuit"
  ELSE "none"

ResultOf(c, overallStatus) ==
  [ overallStatus |-> overallStatus,
    verticalStatus |-> c.verticalStatus,
    horizontalStatus |-> c.horizontalStatus,
    metrics |->
      [ inletVelocity_m_s |-> c.Vjet,
        froudeInlet |-> c.Fr,
        richardsonNumber |-> c.Ri,
        turnoverRatio |-> c.TOR,
        jetPenetrationReach |-> c.jetPenetrationReach,
        horizontalRiskScore |-> c.hScore,
        deltaT |-> c.dt_vs_tank,
        tankVolume_geom_m3 |-> c.v_geom_m3,
        tankVolume_total_effective_m3 |-> c.v_eff_m3,
        deltaT_inlet_vs_tank |-> c.dt_vs_tank,
        deltaT_inlet_range |-> c.dt_range,
        ri_numerator |-> c.ri_num,
        ri_denominator |-> c.ri_den,
        ri_lengthScale_m |-> c.L_buoyancy,
        beta_per_C |-> c.beta ],
    recommendations |-> c.recs,
    validityFlags |-> c.validityFlags,
    dominantRisk |-> DominantRisk(overallStatus, c.verticalStatus, c.Vjet, c.v_target,
                                  c.Ri, c.scenario.options) ]

Aggregation(c) == ResultOf(c, OverallStatus(c.verticalStatus, c.horizontalStatus))

analyzeScenario(scenario) ==
  Aggregation(Recommendations(Horizontal(Vertical(Richardson(Hydraulics(
    VolumeChecks(scenario)))))))

\* analyzeScenario writing the effective volume back into its argument.
scenarioWithVolumeWritten(scenario) ==
  [scenario EXCEPT !.tank.reserve_unusable_kL =
     Add(MathMax(I(0), scenario.tank.operating_storage_kL), MathMax(I(0), @))]

\* The Scenario object after analyzeScenario(scenario) has returned: the
\* function destructures its argument and only reads it.
scenarioAfterAnalyze(scenario) == scenario

\* --------------------------------------------------------------- the form

VARIABLES
  scenarios,  \* App: the scenario list
  activeId,   \* App: the id of the active scenario
  now,        \* the clock that Date.now() reads
  scenario,   \* App: the memoized activeScenario
  result,     \* App: the memoized analyzeScenario(activeScenario)
  hpc,        \* runEngineSanityChecks: position
  heap,       \* runEngineSanityChecks: the Scenario objects it holds, by reference
  href,       \* runEngineSanityChecks: its locals base, s1, s2, s3, s3_base (0: unset)
  hres,       \* runEngineSanityChecks: the Results rBase, r1, r2, r3, r3_base so far
  checks      \* the SanityCheckResult list (name and pass)

vars == << scenarios, activeId, now, scenario, result, hpc, heap, href, hres, checks >>

\* How far from the baseline the explored scenario lists may lie: fields
\* changed, scenarios added and ticks of the clock.
MaxEdits == 3

Sections == {"tank", "inlet", "outlet", "operation", "water", "options"}

Leaves ==
  UNION { { << sec, f >> : f \in DOMAIN createDefaultScenario[sec] } : sec \in Sections }

\* An export of the baseline with one section deleted.
Without(sec) ==
  [f \in DOMAIN createDefaultScenario \ {sec} |-> createDefaultScenario[f]]

\* The scenarios pasted into handleImport's prompt, as JSON.parse reads them:
\* exports of the baseline, some with numbers rewritten, 1e999 among them,
\* which JSON.parse reads as Infinity, and one with the water depth deleted.
ImportFiles ==
  { createDefaultScenario,
    [createDefaultScenario EXCEPT !.options.risk_orient_radial = PInf,
                                  !.options.credit_outlet_opposite = PInf],
    [createDefaultScenario EXCEPT !.operation.inflow_Lps = PInf,
                                  !.water.temperature_inflow_max_C = PInf],
    [createDefaultScenario EXCEPT !.water.temperature_inflow_max_C = PInf,
                                  !.water.temperature_tank_initial_C = PInf],
    [createDefaultScenario EXCEPT !.tank.operating_storage_kL = I(-100),
                                  !.tank.reserve_unusable_kL = I(0),
                                  !.options.layout_score_warn = I(35)],
    [createDefaultScenario EXCEPT !.water.temperature_inflow_min_C = I(20),
                                  !.water.temperature_inflow_max_C = I(21),
                                  !.options.ri_threshold_warn = R(1, 1000),
                                  !.inlet.elevation_from_floor_m = I(4)],
    [createDefaultScenario EXCEPT !.tank.water_depth_m = Undef] }

\* The fields of section sec in which scenario s differs from scenario
\* origin; every field of a section that only one of the two carries is one.
SectionChanged(s, origin, sec) ==
  IF sec \in DOMAIN s /\ sec \in DOMAIN origin
  THEN IF s[sec] = origin[sec] THEN 0
       ELSE Cardinality({ f \in DOMAIN createDefaultScenario[sec] :
                          s[sec][f] # origin[sec][f] })
  ELSE IF (sec \in DOMAIN s) = (sec \in DOMAIN origin) THEN 0
       ELSE Cardinality(DOMAIN createDefaultScenario[sec])

\* The fields in which scenario s differs from scenario origin.
FieldsChanged(s, origin) ==
  SectionChanged(s, origin, "tank") + SectionChanged(s, origin, "inlet")
    + SectionChanged(s, origin, "outlet") + SectionChanged(s, origin, "operation")
    + SectionChanged(s, origin, "water") + SectionChanged(s, origin, "options")

Least(S) == CHOOSE n \in S : \A m \in S : n <= m

\* The pasted scenarios, each with the fields in which it differs from the
\* baseline.
ImportDiffs ==
  { [file |-> o,
     leaves |-> { l \in Leaves : o[l[1]][l[2]] # createDefaultScenario[l[1]][l[2]] }] :
    o \in ImportFiles }

\* The fewest fields changed, given d0 of them from the baseline: a pasted
\* scenario differs from the baseline in its own few fields only, and the
\* count against it differs from d0 in those.
DistanceGiven(s, d0) ==
  Least({d0} \cup
    { d0 - Cardinality({ l \in o.leaves : s[l[1]][l[2]] # createDefaultScenario[l[1]][l[2]] })
         + Cardinality({ l \in o.leaves : s[l[1]][l[2]] # o.file[l[1]][l[2]] }) :
      o \in ImportDiffs })

\* The fields changed since s was created or pasted: the fewest over the
\* baseline and the pasted scenarios (for a scenario of six sections, the
\* pasted one without outlet is never the nearest).
Distance(s) ==
  IF Sections \subseteq DOMAIN s
  THEN DistanceGiven(s, FieldsChanged(s, createDefaultScenario))
  ELSE Least({ FieldsChanged(s, origin) :
                 origin \in {createDefaultScenario, Without("outlet")} \cup ImportFiles })

RECURSIVE TotalDistance(_)
TotalDistance(list) ==
  IF list = << >> THEN 0 ELSE Distance(Head(list)) + TotalDistance(Tail(list))

\* The fields changed in the scenarios of a list, one for every scenario
\* added to it and one for every tick of the clock, which reads t.
Cost(list, t) == TotalDistance(list) + (Len(list) - 1) + (t - 1)

\* What the number inputs deliver to handleNumChange, as parseFloat reads it
\* (an empty or malformed entry reads as NaN).
NumInputs ==
  { << "inlet", "count", I(0) >>, << "inlet", "count", I(2) >>,
    << "inlet", "elevation_from_floor_m", I(2) >>,
    << "inlet", "elevation_from_floor_m", I(4) >>,
    << "inlet", "nozzle_diameter_mm", I(0) >>,
    << "inlet", "nozzle_diameter_mm", I(300) >>,
    << "inlet", "nozzle_diameter_mm", NaN >>,
    << "outlet", "elevation_from_floor_m", I(4) >>,
    << "operation", "inflow_Lps", I(0) >>,
    << "operation", "events_per_day", I(3) >>,
    << "water", "temperature_inflow_min_C", I(10) >>,
    << "water", "temperature_inflow_min_C", I(22) >>,
    << "water", "temperature_inflow_max_C", I(22) >>,
    << "options", "target_velocity_m_s", I(0) >>,
    << "options", "ri_threshold_warn", R(1, 100) >>,
    << "options", "ri_threshold_fail", R(1, 100) >>,
    << "options", "tor_threshold_warn", R(1, 10) >>,
    << "options", "layout_score_fail", I(35) >>,
    << "options", "risk_vertical_proximity", I(-200) >>,
    << "options", "credit_orient_downward", I(-200) >> }

SelectInputs ==
  { << "inlet", "orientation", "tangential" >>,
    << "inlet", "orientation", "upward" >>,
    << "inlet", "orientation", "downward" >>,
    << "outlet", "orientation", "unknown" >>,
    << "options", "ri_length_scale", "nozzle" >>,
    << "options", "ri_length_scale", "tank_half" >> }

TankInputs ==
  { << "diameter_m", I(20) >>, << "diameter_m", I(0) >>,
    << "water_depth_m", I(20) >>,
    << "operating_storage_kL", I(0) >>, << "operating_storage_kL", I(-100) >> }

\* updateField: { ...scenario, [section]: { ...scenario[section], [field]: value } }
updateField(s, section, field, value) == [s EXCEPT ![section][field] = value]

\* parseFloat(x.toFixed(2)) of a number x >= 0: two decimals, half up.
Round2(x) ==
  IF IsFin(x) THEN R((200 * x.n + x.d) \div (2 * x.d), 100) ELSE x

\* The three inputs of the Tank tab: the new value and the recomputed reserve.
tankUpdate(s, field, val) ==
  LET D == IF field = "diameter_m" THEN val ELSE s.tank.diameter_m
      H == IF field = "water_depth_m" THEN val ELSE s.tank.water_depth_m
      oper == IF field = "operating_storage_kL" THEN val ELSE s.tank.operating_storage_kL
      newReserve == MathMax(I(0), Sub(computeTankVolumeCyl(D, H), oper))
  IN  [s EXCEPT !.tank[field] = val, !.tank.reserve_unusable_kL = Round2(newReserve)]

\* scenarios.find(s => s.id === activeId) || scenarios[0]
activeScenario(list, id) ==
  IF \E i \in DOMAIN list : list[i].id = id
  THEN list[CHOOSE i \in DOMAIN list :
              /\ list[i].id = id
              /\ \A j \in 1..(i - 1) : list[j].id # id]
  ELSE list[1]

\* setScenarios(prev => prev.map(s => s.id === updated.id ? updated : s))
handleUpdateScenario(list, updated) ==
  [i \in DOMAIN list |-> IF list[i].id = updated.id THEN updated ELSE list[i]]

\* analyzeScenario(activeScenario) returns: the list has a first element for
\* find's fall-back, and the active scenario carries the six sections that
\* analyzeScenario destructures and then reads fields of (of undefined, the
\* read throws a TypeError).
Renders(list, id) ==
  /\ list # << >>
  /\ Sections \subseteq DOMAIN activeScenario(list, id)

\* The render that follows a change of the list or of the active id
\* recomputes the memoized active scenario and its result.  When
\* analyzeScenario throws, nothing catches it (there is no error boundary):
\* React unmounts App, and the last memoized values are what remains.
Display(list, id) ==
  /\ scenarios' = list
  /\ activeId' = id
  /\ IF Renders(list, id)
     THEN /\ scenario' = scenarioAfterAnalyze(activeScenario(list, id))
          /\ result' = analyzeScenario(activeScenario(list, id))
     ELSE UNCHANGED << scenario, result >>
  /\ UNCHANGED << hpc, heap, href, hres, checks >>

\* App is on screen, its buttons and inputs with it.
Mounted == Renders(scenarios, activeId)

\* The form's onUpdate: handleUpdateScenario, then the render.
Render(updated) ==
  /\ Display(handleUpdateScenario(scenarios, updated), activeId)
  /\ UNCHANGED now

Editable(updated) ==
  /\ hpc = "done"
  /\ Mounted
  /\ updated # scenario
  /\ Cost(handleUpdateScenario(scenarios, updated), now) <= MaxEdits

handleNumChange ==
  \E e \in NumInputs :
    /\ ~IsNaN(e[3])
    /\ Editable(updateField(scenario, e[1], e[2], e[3]))
    /\ Render(updateField(scenario, e[1], e[2], e[3]))

handleSelectChange ==
  \E e \in SelectInputs :
    /\ Editable(updateField(scenario, e[1], e[2], e[3]))
    /\ Render(updateField(scenario, e[1], e[2], e[3]))

\* The Velocity Preset select: the level and the target velocity it stands for.
presetUpdate(s, level) ==
  [s EXCEPT !.options.conservatism = level,
            !.options.target_velocity_m_s =
               IF level = "high" THEN I(1)
               ELSE IF level = "low" THEN R(6, 10)
               ELSE R(8, 10)]

handlePresetChange ==
  \E level \in {"low", "normal", "high"} :
    /\ Editable(presetUpdate(scenario, level))
    /\ Render(presetUpdate(scenario, level))

\* What prompt() returns: null when cancelled, or the text, here with what
\* JSON.parse makes of it (a value, or a SyntaxError).
PromptInputs ==
  { [kind |-> "json", value |-> f] : f \in ImportFiles }
    \cup { [kind |-> "json", value |-> Without("tank")],
           [kind |-> "json", value |-> Without("inlet")],
           [kind |-> "json", value |-> Without("outlet")],
           [kind |-> "json", value |-> [name |-> "Notes"]],
           [kind |-> "cancelled", value |-> [name |-> ""]],
           [kind |-> "empty", value |-> [name |-> ""]],
           [kind |-> "syntax_error", value |-> [name |-> ""]] }

\* if (!str) return
NoText(str) == str.kind \in {"cancelled", "empty"}

\* The schema check asking for the tank section only.
InvalidSchemaTankOnly(parsed) == "tank" \notin DOMAIN parsed

\* if (!parsed.tank || !parsed.inlet) throw new Error("Invalid schema")
\* (the sections of the pasted values are objects, which are truthy).
InvalidSchema(parsed) == "tank" \notin DOMAIN parsed \/ "inlet" \notin DOMAIN parsed

\* parsed.id = `import-${Date.now()}`; parsed.name = `Imported: ${parsed.name}`
imported(parsed, t) ==
  [parsed EXCEPT !.id = "import-" \o ToString(t), !.name = "Imported: " \o @]

\* handleImport's effect on the list and the active id: the early return, the
\* two throws that the catch turns into an alert, and the two setters.
importOutcome(str, list, id, t) ==
  IF NoText(str) THEN [scenarios |-> list, activeId |-> id]
  ELSE IF str.kind = "syntax_error" THEN [scenarios |-> list, activeId |-> id]
  ELSE IF InvalidSchema(str.value) THEN [scenarios |-> list, activeId |-> id]
  ELSE [scenarios |-> Append(list, imported(str.value, t)),
        activeId |-> imported(str.value, t).id]

\* handleImport, and the render that follows when the state was set.
handleImport ==
  \E str \in PromptInputs :
    /\ hpc = "done"
    /\ Mounted
    /\ IF importOutcome(str, scenarios, activeId, now).scenarios = scenarios
       THEN UNCHANGED vars
       ELSE /\ Cost(importOutcome(str, scenarios, activeId, now).scenarios, now + 1) <= MaxEdits
            /\ Display(importOutcome(str, scenarios, activeId, now).scenarios,
                       importOutcome(str, scenarios, activeId, now).activeId)
            /\ now' = now + 1

handleTankChange ==
  \E e \in TankInputs :
    /\ ~IsNaN(e[2])
    /\ Editable(tankUpdate(scenario, e[1], e[2]))
    /\ Render(tankUpdate(scenario, e[1], e[2]))

\* ------------------------------------------------- runEngineSanityChecks

\* JSON.parse(JSON.stringify(x)) of a Scenario: strings and finite numbers come
\* back as they were, NaN and the infinities come back as null.
Null == [k |-> "null", n |-> 0, d |-> 1]
StringFields == {"shape", "orientation", "conservatism", "ri_length_scale"}

JsonRoundTrip(s) ==
  [ key \in DOMAIN s |->
      IF key \in Sections
      THEN [ f \in DOMAIN s[key] |->
               IF f \in StringFields \/ IsFin(s[key][f]) \/ s[key][f].k = "undef"
               THEN s[key][f] ELSE Null ]
      ELSE s[key] ]

\* JSON.parse(JSON.stringify(h[r])) as Scenario: a new object on the heap.
CopyScenario(h, r) == [heap |-> Append(h, JsonRoundTrip(h[r])), ref |-> Len(h) + 1]

\* analyzeScenario(h[r]) as the harness calls it: the Result, and the heap after.
HeapAfterAnalyze(h, r) == [h EXCEPT ![r] = scenarioAfterAnalyze(h[r])]

HStart ==
  /\ hpc = "start"
  /\ heap' = << createDefaultScenario >>
  /\ href' = [href EXCEPT !.base = 1]
  /\ checks' = << >>
  /\ hpc' = "check1"
  /\ UNCHANGED << scenarios, activeId, now, scenario, result, hres >>

\* Check 1: s1 and its nozzle diameter.
HCopy1 ==
  /\ hpc = "check1"
  /\ LET c == CopyScenario(heap, href.base)
     IN  /\ heap' = [c.heap EXCEPT ![c.ref].inlet.nozzle_diameter_mm = I(300)]
         /\ href' = [href EXCEPT !.s1 = c.ref]
  /\ hpc' = "run1"
  /\ UNCHANGED << scenarios, activeId, now, scenario, result, hres, checks >>

HRun1 ==
  /\ hpc = "run1"
  /\ LET rBase == analyzeScenario(heap[href.base])
         h1 == HeapAfterAnalyze(heap, href.base)
         r1 == analyzeScenario(h1[href.s1])
         h2 == HeapAfterAnalyze(h1, href.s1)
     IN  /\ heap' = h2
         /\ hres' = << rBase, r1 >>
         /\ checks' = Append(checks,
              [ name |-> "Increase Nozzle Diam -> Reduce Velocity",
                pass |-> Lt(r1.metrics.inletVelocity_m_s, rBase.metrics.inletVelocity_m_s) ])
  /\ hpc' = "check2"
  /\ UNCHANGED << scenarios, activeId, now, scenario, result, href >>

\* Check 2: s2 and its inflow temperature.
HCopy2 ==
  /\ hpc = "check2"
  /\ LET c == CopyScenario(heap, href.base)
     IN  /\ heap' = [c.heap EXCEPT ![c.ref].water.temperature_inflow_min_C = I(10)]
         /\ href' = [href EXCEPT !.s2 = c.ref]
  /\ hpc' = "run2"
  /\ UNCHANGED << scenarios, activeId, now, scenario, result, hres, checks >>

HRun2 ==
  /\ hpc = "run2"
  /\ LET r2 == analyzeScenario(heap[href.s2])
     IN  /\ heap' = HeapAfterAnalyze(heap, href.s2)
         /\ hres' = Append(hres, r2)
         /\ checks' = Append(checks,
              [ name |-> "Increase DeltaT -> Increase Ri",
                pass |-> QLt(hres[1].metrics.richardsonNumber, r2.metrics.richardsonNumber) ])
  /\ hpc' = "check3"
  /\ UNCHANGED << scenarios, activeId, now, scenario, result, href >>

\* Check 3: s3 with the tank_half scale, s3_base with the nozzle scale.
HCopy3 ==
  /\ hpc = "check3"
  /\ LET c == CopyScenario(heap, href.base)
     IN  /\ heap' = [c.heap EXCEPT ![c.ref].options.ri_length_scale = "tank_half",
                                   ![c.ref].tank.diameter_m = I(20),
                                   ![c.ref].tank.water_depth_m = I(20)]
         /\ href' = [href EXCEPT !.s3 = c.ref]
  /\ hpc' = "run3"
  /\ UNCHANGED << scenarios, activeId, now, scenario, result, hres, checks >>

HRun3 ==
  /\ hpc = "run3"
  /\ LET r3 == analyzeScenario(heap[href.s3])
         h1 == HeapAfterAnalyze(heap, href.s3)
         c == CopyScenario(h1, href.s3)
     IN  /\ heap' = [c.heap EXCEPT ![c.ref].options.ri_length_scale = "nozzle"]
         /\ href' = [href EXCEPT !.s3_base = c.ref]
         /\ hres' = Append(hres, r3)
  /\ hpc' = "run3base"
  /\ UNCHANGED << scenarios, activeId, now, scenario, result, checks >>

HRun3Base ==
  /\ hpc = "run3base"
  /\ LET r3_base == analyzeScenario(heap[href.s3_base])
     IN  /\ heap' = HeapAfterAnalyze(heap, href.s3_base)
         /\ hres' = Append(hres, r3_base)
         /\ checks' = Append(checks,
              [ name |-> "Increase Length Scale -> Increase Ri",
                pass |-> QLt(r3_base.metrics.richardsonNumber,
                             hres[4].metrics.richardsonNumber) ])
  /\ hpc' = "return"
  /\ UNCHANGED << scenarios, activeId, now, scenario, result, href >>

\* return results: the locals go, the list of checks stays with the caller.
HReturn ==
  /\ hpc = "return"
  /\ heap' = << >>
  /\ hres' = << >>
  /\ href' = [base |-> 0, s1 |-> 0, s2 |-> 0, s3 |-> 0, s3_base |-> 0]
  /\ hpc' = "done"
  /\ UNCHANGED << scenarios, activeId, now, scenario, result, checks >>

\* ------------------------------------------------------ the scenario list

\* What Date.now() returns to handleAddScenario and handleDuplicate: the
\* clock's reading, or once more the reading that stamped the scenario added
\* last, when that scenario is still the active one (a second click within
\* the clock's resolution).
DateNow ==
  {now} \cup
    { t \in {now - 1} :
        /\ scenarios # << >>
        /\ scenarios[Len(scenarios)].id = "scenario-" \o ToString(t)
        /\ activeId = "scenario-" \o ToString(t) }

\* The clock after Date.now() returned t.
ClockAfter(t) == IF t = now THEN now + 1 ELSE now

\* newS of handleAddScenario.
newS(list, t) ==
  [createDefaultScenario EXCEPT !.id = "scenario-" \o ToString(t),
                                !.name = "New Scenario " \o ToString(Len(list) + 1)]

\* handleAddScenario, and the render that follows.
handleAddScenario ==
  \E t \in DateNow :
    /\ hpc = "done"
    /\ Mounted
    /\ Cost(Append(scenarios, newS(scenarios, t)), ClockAfter(t)) <= MaxEdits
    /\ Display(Append(scenarios, newS(scenarios, t)), newS(scenarios, t).id)
    /\ now' = ClockAfter(t)

\* copy of handleDuplicate.
copy(active, t) ==
  [JsonRoundTrip(active) EXCEPT !.id = "scenario-" \o ToString(t),
                                !.name = active.name \o " (Copy)"]

\* handleDuplicate, and the render that follows.
handleDuplicate ==
  \E t \in DateNow :
    /\ hpc = "done"
    /\ Mounted
    /\ Cost(Append(scenarios, copy(activeScenario(scenarios, activeId), t)),
            ClockAfter(t)) <= MaxEdits
    /\ Display(Append(scenarios, copy(activeScenario(scenarios, activeId), t)),
               copy(activeScenario(scenarios, activeId), t).id)
    /\ now' = ClockAfter(t)

\* scenarios.filter(s => s.id !== activeId)
remaining(list, id) == SelectSeq(list, LAMBDA s : s.id # id)

\* handleDelete's effect on the list and the active id: the early return, the
\* declined confirm, and the two setters.  remaining[remaining.length - 1] of
\* an empty array is undefined and reading its id throws, after
\* setScenarios(remaining) and before setActiveId is called.
deleteOutcome(list, id, confirmed) ==
  IF Len(list) = 1 THEN [scenarios |-> list, activeId |-> id]
  ELSE IF ~confirmed THEN [scenarios |-> list, activeId |-> id]
  ELSE IF remaining(list, id) = << >> THEN [scenarios |-> << >>, activeId |-> id]
  ELSE [scenarios |-> remaining(list, id),
        activeId |-> remaining(list, id)[Len(remaining(list, id))].id]

\* handleDelete, and the render that follows when the state was set.
handleDelete ==
  \E confirmed \in BOOLEAN :
    /\ hpc = "done"
    /\ Mounted
    /\ IF deleteOutcome(scenarios, activeId, confirmed).scenarios = scenarios
       THEN UNCHANGED vars
       ELSE /\ Display(deleteOutcome(scenarios, activeId, confirmed).scenarios,
                       deleteOutcome(scenarios, activeId, confirmed).activeId)
            /\ now' = now + 1

\* The scenario select: onChange={(e) => setActiveId(e.target.value)}, the
\* value being the id of one of the listed scenarios.
handleSelectScenario ==
  \E i \in DOMAIN scenarios :
    /\ hpc = "done"
    /\ Mounted
    /\ scenarios[i].id # activeId
    /\ Display(scenarios, scenarios[i].id)
    /\ UNCHANGED now

\* ------------------------------------------------------------ the system

\* App mounts with [createDefaultScenario()], its memoized result, and the
\* SanityChecks component about to run the harness in its first render.
Init ==
  /\ scenarios = << createDefaultScenario >>
  /\ activeId = createDefaultScenario.id
  /\ now = 1
  /\ scenario = createDefaultScenario
  /\ result = analyzeScenario(createDefaultScenario)
  /\ hpc = "start"
  /\ heap = << >>
  /\ href = [base |-> 0, s1 |-> 0, s2 |-> 0, s3 |-> 0, s3_base |-> 0]
  /\ hres = << >>
  /\ checks = << >>

Next ==
  \/ HStart
  \/ HCopy1
  \/ HRun1
  \/ HCopy2
  \/ HRun2
  \/ HCopy3
  \/ HRun3
  \/ HRun3Base
  \/ HReturn
  \/ handleNumChange
  \/ handleSelectChange
  \/ handlePresetChange
  \/ handleTankChange
  \/ handleImport
  \/ handleAddScenario
  \/ handleDuplicate
  \/ handleDelete
  \/ handleSelectScenario

Spec == Init /\ [][Next]_vars

\* ------------------------------------------------------------ properties

\* Every Result the program holds: the one on screen and the harness's own.
Results == {result} \cup { hres[i] : i \in DOMAIN hres }

\* C1: in every Result, overallStatus is FAIL iff verticalStatus or
\* horizontalStatus is FAIL, PASS iff both are PASS, and WARN otherwise.
C1_SeverityOrdering ==
  \A r \in Results :
    /\ r.overallStatus = "FAIL" <=>
         (r.verticalStatus = "FAIL" \/ r.horizontalStatus = "FAIL")
    /\ r.overallStatus = "PASS" <=>
         (r.verticalStatus = "PASS" /\ r.horizontalStatus = "PASS")
    /\ r.overallStatus \in {"FAIL", "WARN", "PASS"}
    /\ (~(r.verticalStatus = "FAIL" \/ r.horizontalStatus = "FAIL")
        /\ ~(r.verticalStatus = "PASS" /\ r.horizontalStatus = "PASS"))
         => r.overallStatus = "WARN"

\* C1 witness: a vertical FAIL beside a horizontal WARN gives an overall FAIL.
C1_Witness ==
  /\ hpc = "done"
  /\ result.verticalStatus = "FAIL"
  /\ result.horizontalStatus = "WARN"
  /\ result.overallStatus = "FAIL"

\* C2: metrics.horizontalRiskScore of the Result on screen is within [0, 100]
\* whatever the eight layout weights and credits are.
C2_ScoreClamp ==
  /\ Ge(result.metrics.horizontalRiskScore, I(0))
  /\ Le(result.metrics.horizontalRiskScore, I(100))

\* C3 (determinism of analyzeScenario) is true of any operator of a model and
\* is not stated here.

HarnessRunning == hpc \notin {"start", "done"}

\* The Scenario a form step hands to handleUpdateScenario, or a step of the
\* scenario list makes the active one.
FormUpdates ==
  { updateField(scenario, e[1], e[2], e[3]) : e \in NumInputs \cup SelectInputs }
    \cup { tankUpdate(scenario, e[1], e[2]) : e \in TankInputs }
    \cup { presetUpdate(scenario, level) : level \in {"low", "normal", "high"} }
    \cup { imported(parsed, now) : parsed \in ImportFiles }
    \cup { newS(scenarios, t) : t \in DateNow }
    \cup { copy(scenario, t) : t \in DateNow }
    \cup { scenarios[i] : i \in DOMAIN scenarios }

\* C4: analyzeScenario leaves its argument as it was: the scenario analysed
\* for the screen is exactly the one the form handed over, every analysis of
\* the harness leaves the objects it holds as they were, and the harness
\* changes only the copies it has just made, so that its baseline stays the
\* default scenario.
C4_ArgumentUnchanged ==
  /\ [](HarnessRunning =>
          /\ href.base = 1
          /\ heap[href.base] = createDefaultScenario)
  /\ [][ /\ hpc = "done" => scenario' \in FormUpdates
         /\ (HarnessRunning /\ hpc # "return") =>
              \A i \in DOMAIN heap : heap'[i] = heap[i] ]_vars

\* C4 witness: the harness has analysed its baseline and all four changed
\* copies.
C4_Witness ==
  /\ hpc = "return"
  /\ Len(heap) = 5
  /\ Len(hres) = 5
  /\ heap[href.s1].inlet.nozzle_diameter_mm = I(300)
  /\ heap[href.s3].tank.diameter_m = I(20)
  /\ heap[href.base] = createDefaultScenario

NumericMetrics ==
  { "inletVelocity_m_s", "turnoverRatio", "horizontalRiskScore", "deltaT",
    "tankVolume_geom_m3", "tankVolume_total_effective_m3", "deltaT_inlet_vs_tank",
    "deltaT_inlet_range", "ri_numerator", "ri_denominator", "ri_lengthScale_m",
    "beta_per_C", "froudeInlet", "richardsonNumber" }

\* C5: whenever the inlet velocity is <= 0.0001 (also the 0 of the zero-area
\* and zero-count guard), richardsonNumber is +infinity, also when the case is
\* isothermal, and no numeric field of metrics is NaN.
C5_Singularity ==
  Le(result.metrics.inletVelocity_m_s, R(1, 10000)) =>
    /\ result.metrics.richardsonNumber.k = "inf"
    /\ \A f \in NumericMetrics : result.metrics[f].k # "nan"

\* The Richardson number of a Result as the priority rules give it, before
\* the NaN check.
RawRi(r) ==
  RichardsonRaw(r.metrics.inletVelocity_m_s, r.metrics.deltaT_inlet_vs_tank,
                r.metrics.beta_per_C, r.metrics.ri_lengthScale_m).Ri

RiNaNFlag == "Error: Calculated Richardson number is NaN. Check input values."

Flagged(r) == \E i \in DOMAIN r.validityFlags : r.validityFlags[i] = RiNaNFlag

\* C6 as stated: a Richardson number that is not finite is reported as 0
\* with the advisory flag, and richardsonNumber is never NaN.
C6_NonFiniteReset ==
  \A r \in Results :
    /\ RawRi(r).k # "fin" => (r.metrics.richardsonNumber = QZero /\ Flagged(r))
    /\ r.metrics.richardsonNumber.k # "nan"

\* C6 amended: a Richardson number that is NaN is reported as 0 with the
\* advisory flag; any other value, +infinity included, is reported as it is
\* and without the flag; richardsonNumber is never NaN.
C6_NaNReset ==
  \A r \in Results :
    /\ RawRi(r).k = "nan" => (r.metrics.richardsonNumber = QZero /\ Flagged(r))
    /\ RawRi(r).k # "nan" => (r.metrics.richardsonNumber = RawRi(r) /\ ~Flagged(r))
    /\ r.metrics.richardsonNumber.k # "nan"

\* C6 witness: infinite buoyancy over infinite momentum, reported as 0 with
\* the flag.
C6_Witness ==
  /\ RawRi(result).k = "nan"
  /\ result.metrics.richardsonNumber = QZero
  /\ Flagged(result)

\* s2 is s1 with a wider nozzle, d1 > 0, and nothing else changed.
NozzleWidened(s1, s2) ==
  /\ s2 = updateField(s1, "inlet", "nozzle_diameter_mm", s2.inlet.nozzle_diameter_mm)
  /\ Gt(s1.inlet.nozzle_diameter_mm, I(0))
  /\ Lt(s1.inlet.nozzle_diameter_mm, s2.inlet.nozzle_diameter_mm)

SlowerJet(r1, r2) == Lt(r2.metrics.inletVelocity_m_s, r1.metrics.inletVelocity_m_s)

\* C7 as stated: whenever an edit changes only the nozzle diameter, between
\* two diameters 0 < d1 < d2, the inlet velocity for d2 is strictly less than
\* the one for d1.
C7_VelocityMonotone ==
  [][ /\ NozzleWidened(scenario, scenario') => SlowerJet(result, result')
      /\ NozzleWidened(scenario', scenario) => SlowerJet(result', result) ]_vars

\* The inflow is a finite rate above 0 and the inlet count a finite number
\* above 0, so that the velocity is a finite quotient above 0.
FlowingInlets(s) ==
  /\ IsFin(s.operation.inflow_Lps) /\ Gt(s.operation.inflow_Lps, I(0))
  /\ IsFin(s.inlet.count) /\ Gt(s.inlet.count, I(0))
  /\ IsFin(s.inlet.nozzle_diameter_mm)

\* C7 amended: for a fixed finite inflow above 0 and a fixed finite inlet
\* count above 0, and two finite nozzle diameters 0 < d1 < d2, the inlet
\* velocity for d2 is strictly less than the one for d1.
C7_VelocityMonotoneFlowing ==
  [][ /\ (NozzleWidened(scenario, scenario') /\ FlowingInlets(scenario')) =>
           SlowerJet(result, result')
      /\ (NozzleWidened(scenario', scenario) /\ FlowingInlets(scenario)) =>
           SlowerJet(result', result) ]_vars

\* C7 witness: the baseline with its nozzle widened to 300 mm is on screen,
\* with a quarter of the baseline's velocity.
C7_Witness ==
  /\ scenario = updateField(createDefaultScenario, "inlet", "nozzle_diameter_mm", I(300))
  /\ result.metrics.inletVelocity_m_s = R(904, 3195)
  /\ Lt(result.metrics.inletVelocity_m_s,
        computeInletVelocity(I(20), computeNozzleArea(I(150)), I(1)))

\* r1 and r2 have the same inlet velocity and length scale, and the
\* temperature differences 0.01 <= dT1 < dT2.
DeltaTRaised(r1, r2) ==
  /\ r1.metrics.inletVelocity_m_s = r2.metrics.inletVelocity_m_s
  /\ r1.metrics.ri_lengthScale_m = r2.metrics.ri_lengthScale_m
  /\ Ge(r1.metrics.deltaT_inlet_vs_tank, R(1, 100))
  /\ Lt(r1.metrics.deltaT_inlet_vs_tank, r2.metrics.deltaT_inlet_vs_tank)

HigherRi(r1, r2) == QLt(r1.metrics.richardsonNumber, r2.metrics.richardsonNumber)

\* The inlet velocity is a finite number above the singularity threshold.
MovingJet(r) ==
  /\ IsFin(r.metrics.inletVelocity_m_s)
  /\ Gt(r.metrics.inletVelocity_m_s, R(1, 10000))

DefinedLength(r) == ~IsNaN(r.metrics.ri_lengthScale_m)

LengthRaised(r1, r2) ==
  /\ r1.metrics.inletVelocity_m_s = r2.metrics.inletVelocity_m_s
  /\ r1.metrics.deltaT_inlet_vs_tank = r2.metrics.deltaT_inlet_vs_tank
  /\ Lt(r1.metrics.ri_lengthScale_m, r2.metrics.ri_lengthScale_m)

\* C9 as stated: of two Results, one before and one after an edit, with the
\* same inlet velocity and temperature difference, the one with the larger
\* length scale has the strictly greater Richardson number.
C9_RiMonotoneLength ==
  [][ /\ LengthRaised(result, result') => HigherRi(result, result')
      /\ LengthRaised(result', result) => HigherRi(result', result) ]_vars

\* The temperature difference is a finite number of at least 0.01 C.
Stratifying(r) ==
  /\ IsFin(r.metrics.deltaT_inlet_vs_tank)
  /\ Ge(r.metrics.deltaT_inlet_vs_tank, R(1, 100))

\* C9 amended: the same, for an inlet velocity that is finite and above
\* 0.0001 m/s and a finite temperature difference of at least 0.01 C.
C9_RiMonotoneLengthStratified ==
  [][ /\ (LengthRaised(result, result') /\ MovingJet(result) /\ Stratifying(result)) =>
           HigherRi(result, result')
      /\ (LengthRaised(result', result) /\ MovingJet(result) /\ Stratifying(result)) =>
           HigherRi(result', result) ]_vars

\* C9 witness: the baseline with the tank_half length scale (2.5 m for
\* 1.25 m) is on screen, with the greater Richardson number.
C9_Witness ==
  /\ scenario = updateField(createDefaultScenario, "options", "ri_length_scale", "tank_half")
  /\ result.metrics.ri_lengthScale_m = R(5, 2)
  /\ MovingJet(result) /\ Stratifying(result)
  /\ HigherRi(analyzeScenario(createDefaultScenario), result)

Recommended(r, id) == \E i \in DOMAIN r.recommendations : r.recommendations[i] = id

\* The momentum check on a scenario s and its Result r.
MomentumRule(s, r) ==
  LET Vjet == r.metrics.inletVelocity_m_s
      v_target == Nullish(s.options.target_velocity_m_s, R(8, 10))
  IN  IF Lt(Vjet, Mul(R(1, 2), v_target))
      THEN /\ r.verticalStatus = "FAIL"
           /\ Recommended(r, "vert-mom-fail")
           /\ ~Recommended(r, "vert-mom-warn")
      ELSE IF Lt(Vjet, v_target)
      THEN /\ r.verticalStatus \in {"WARN", "FAIL"}
           /\ Recommended(r, "vert-mom-warn")
           /\ ~Recommended(r, "vert-mom-fail")
      ELSE /\ ~Recommended(r, "vert-mom-warn")
           /\ ~Recommended(r, "vert-mom-fail")

\* C10: a velocity below half the target gives verticalStatus FAIL and
\* vert-mom-fail; else a velocity below the target gives at least WARN and
\* vert-mom-warn; else the momentum check raises nothing.  The baseline is
\* not escalated by the momentum check, and the baseline with a 300 mm nozzle
\* gets verticalStatus FAIL with vert-mom-fail.
C10_MomentumCheck ==
  /\ MomentumRule(scenario, result)
  /\ scenario = createDefaultScenario =>
       /\ Ge(result.metrics.inletVelocity_m_s, R(8, 10))
       /\ ~Recommended(result, "vert-mom-warn")
       /\ ~Recommended(result, "vert-mom-fail")
  /\ scenario = updateField(createDefaultScenario, "inlet", "nozzle_diameter_mm", I(300)) =>
       /\ result.verticalStatus = "FAIL"
       /\ Recommended(result, "vert-mom-fail")

\* C10 witness: the baseline with a 300 mm nozzle is on screen, its velocity
\* below half the target of 0.8 m/s.
C10_Witness ==
  /\ scenario = updateField(createDefaultScenario, "inlet", "nozzle_diameter_mm", I(300))
  /\ Lt(result.metrics.inletVelocity_m_s, R(4, 10))
  /\ result.verticalStatus = "FAIL"

\* ---------------------------------------------------------------------------
\* C11. The dominant risk of the displayed Result is 'none' exactly when the
\* overall status is PASS, 'short_circuit' exactly when the vertical status is
\* PASS and the horizontal status is not, and, when the vertical status is
\* WARN or FAIL, 'insufficient_momentum' if the inlet velocity is below half
\* the target velocity, otherwise 'buoyancy' if the Richardson number exceeds
\* the warning threshold, otherwise 'insufficient_momentum'.
TargetVelocity == Nullish(scenario.options.target_velocity_m_s, R(8, 10))

BelowHalfTarget ==
  Lt(result.metrics.inletVelocity_m_s, Mul(R(1, 2), TargetVelocity))

RiAboveWarn ==
  QGt(result.metrics.richardsonNumber, scenario.options.ri_threshold_warn)

C11_DominantRisk ==
  /\ (result.dominantRisk = "none") <=> (result.overallStatus = "PASS")
  /\ (result.dominantRisk = "short_circuit") <=>
       (result.verticalStatus = "PASS" /\ result.horizontalStatus # "PASS")
  /\ result.verticalStatus \in {"WARN", "FAIL"} =>
       result.dominantRisk =
         IF BelowHalfTarget THEN "insufficient_momentum"
         ELSE IF RiAboveWarn THEN "buoyancy"
         ELSE "insufficient_momentum"

\* A slow jet below half the target in a stratifying tank: momentum is named,
\* although the Richardson number is above its warning threshold.
C11_Witness ==
  /\ result.verticalStatus = "FAIL"
  /\ BelowHalfTarget
  /\ RiAboveWarn
  /\ result.dominantRisk = "insufficient_momentum"

C11_WitnessBuoyancy ==
  /\ ~BelowHalfTarget
  /\ result.dominantRisk = "buoyancy"

\* ---------------------------------------------------------------------------
\* C12. The horizontal status of the displayed Result is FAIL exactly when the
\* clamped layout score is at or above options.layout_score_fail, otherwise
\* WARN exactly when it is at or above options.layout_score_warn, otherwise
\* PASS; a score equal to a threshold triggers that threshold.
ScoreAtOrAbove(threshold) == Ge(result.metrics.horizontalRiskScore, threshold)

C12_WitnessWarn ==
  /\ result.metrics.horizontalRiskScore = scenario.options.layout_score_warn
  /\ result.horizontalStatus = "WARN"

\* ---------------------------------------------------------------------------
\* C13. Volume advisories of the displayed Result.
ExceedsFlag == "Warning: Specified volumes exceed geometric capacity."

MissingFlag ==
  "Warning: No operating/reserve storage defined. Using geometric volume for turnover metrics."

HasFlag(r, flag) == \E i \in DOMAIN r.validityFlags : r.validityFlags[i] = flag

\* pi/4 * diameter^2 * depth
GeometricVolume ==
  Mul(Div(PI, I(4)), Mul(Pow2(scenario.tank.diameter_m), scenario.tank.water_depth_m))

\* Operating storage plus reserve volume, as entered.
StorageSum ==
  Add(scenario.tank.operating_storage_kL, scenario.tank.reserve_unusable_kL)

\* Operating storage plus reserve volume, each counted as 0 when negative.
StorageSumNonNegative ==
  Add(MathMax(I(0), scenario.tank.operating_storage_kL),
      MathMax(I(0), scenario.tank.reserve_unusable_kL))

TurnoverOfGeometricVolume ==
  result.metrics.turnoverRatio =
    computeTurnoverRatio(scenario.operation.fill_event_volume_kL, GeometricVolume)

ResultFields ==
  { "overallStatus", "verticalStatus", "horizontalStatus", "metrics",
    "recommendations", "validityFlags", "dominantRisk" }

FullResult ==
  /\ DOMAIN result = ResultFields
  /\ result.overallStatus \in {"PASS", "WARN", "FAIL"}
  /\ NumericMetrics \cup {"jetPenetrationReach"} = DOMAIN result.metrics

\* C13, first part as stated: whenever operating storage plus reserve volume
\* exceeds the geometric volume, the advisory is among the validity flags.
C13_ExcessFlagged ==
  Gt(StorageSum, GeometricVolume) => HasFlag(result, ExceedsFlag)

\* C13, second part as stated: whenever operating plus reserve storage is
\* <= 0, the advisory is among the validity flags and the turnover ratio is the
\* one of the geometric volume.
C13_MissingFlagged ==
  Le(StorageSum, I(0)) => (HasFlag(result, MissingFlag) /\ TurnoverOfGeometricVolume)

\* C13 as stated: both advisories, and a full Result in either case.
C13_VolumeAdvisories ==
  /\ C13_ExcessFlagged
  /\ C13_MissingFlagged
  /\ FullResult

\* C13, amended. With operating storage and reserve volume each counted as 0
\* when negative: whenever their sum exceeds the geometric volume by more
\* than 1%, the excess advisory is among the validity flags; whenever their
\* sum is <= 0, the missing-storage advisory is among the validity flags and
\* the turnover ratio is the one of the geometric volume; in both cases the
\* Result is a full Result.
C13_VolumeAdvisoriesTolerant ==
  /\ Gt(StorageSumNonNegative, Mul(R(101, 100), GeometricVolume)) =>
       HasFlag(result, ExceedsFlag)
  /\ Le(StorageSumNonNegative, I(0)) =>
       (HasFlag(result, MissingFlag) /\ TurnoverOfGeometricVolume)
  /\ FullResult

\* No storage entered in a tank that has a geometric volume: the advisory is
\* raised and the turnover is a positive ratio to the geometric volume.
C13_Witness ==
  /\ Le(StorageSumNonNegative, I(0))
  /\ Gt(GeometricVolume, I(0))
  /\ HasFlag(result, MissingFlag)
  /\ Gt(result.metrics.turnoverRatio, I(0))

\* The storage exceeds the geometric volume by more than 1%, and is flagged.
C13_WitnessExcess ==
  /\ Gt(StorageSumNonNegative, Mul(R(101, 100), GeometricVolume))
  /\ IsFin(GeometricVolume)
  /\ HasFlag(result, ExceedsFlag)

\* ---------------------------------------------------------------------------
\* C14. Non-interference of the unused inputs: a scenario that differs from
\* the active one only in the inlet inclination, the fill events per day, the
\* target mixed fraction, the id or the name has a Result equal to the
\* displayed one in every field.
UnusedVariants(s) ==
  { [s EXCEPT !.inlet.inclination_deg = I(45),
              !.operation.events_per_day = I(7),
              !.options.target_mixed_fraction = R(1, 4),
              !.id = "other-1",
              !.name = "Other"],
    [s EXCEPT !.inlet.inclination_deg = createDefaultScenario.inlet.inclination_deg,
              !.operation.events_per_day = createDefaultScenario.operation.events_per_day,
              !.options.target_mixed_fraction =
                 createDefaultScenario.options.target_mixed_fraction,
              !.id = createDefaultScenario.id,
              !.name = createDefaultScenario.name] }

C14_NonInterference ==
  \A other \in UnusedVariants(scenario) : analyzeScenario(other) = result

\* The active scenario was imported and has its own id, name and events per
\* day, a used input differs from the baseline too, and its Result is the one
\* of every scenario that differs from it in unused inputs only.
C14_Witness ==
  /\ scenario.operation.events_per_day # createDefaultScenario.operation.events_per_day
  /\ scenario.id # createDefaultScenario.id
  /\ scenario.name # createDefaultScenario.name
  /\ result # analyzeScenario(createDefaultScenario)
  /\ \A other \in UnusedVariants(scenario) : analyzeScenario(other) = result

\* ---------------------------------------------------------------------------
\* C15. Scenario import. A pasted text is accepted only if it parses and
\* contains both a tank section and an inlet section; on acceptance the
\* scenario is appended to the list and becomes the active one; on rejection
\* (a cancelled prompt, an unparsable text, a missing tank or inlet) the
\* scenario list and the active id are left unchanged.
Parses(str) == str.kind = "json"

ContainsTankAndInlet(str) == {"tank", "inlet"} \subseteq DOMAIN str.value

\* The pasted value but for the id and the name that the import rewrites.
SameContent(s, value) ==
  /\ DOMAIN s = DOMAIN value
  /\ \A f \in DOMAIN value \ {"id", "name"} : s[f] = value[f]

\* list and id are the list before with one scenario appended, pasted as str,
\* and that scenario is the active one.
AppendedAndActive(list, id, str) ==
  /\ Len(list) = Len(scenarios) + 1
  /\ SubSeq(list, 1, Len(scenarios)) = scenarios
  /\ SameContent(list[Len(list)], str.value)
  /\ id = list[Len(list)].id
  /\ activeScenario(list, id) = list[Len(list)]

\* What handleImport would do, in the state reached, with every text.
C15_ImportOutcome ==
  \A str \in PromptInputs :
    IF Parses(str) /\ ContainsTankAndInlet(str)
    THEN AppendedAndActive(importOutcome(str, scenarios, activeId, now).scenarios,
                           importOutcome(str, scenarios, activeId, now).activeId, str)
    ELSE /\ importOutcome(str, scenarios, activeId, now).scenarios = scenarios
         /\ importOutcome(str, scenarios, activeId, now).activeId = activeId

\* A step that appends a scenario under an import id.
ImportStep ==
  /\ Len(scenarios') = Len(scenarios) + 1
  /\ scenarios'[Len(scenarios')].id = "import-" \o ToString(now)

C15_Import ==
  /\ []C15_ImportOutcome
  /\ [][ ImportStep =>
           /\ \E str \in PromptInputs :
                /\ Parses(str) /\ ContainsTankAndInlet(str)
                /\ AppendedAndActive(scenarios', activeId', str)
           /\ Renders(scenarios', activeId') => scenario' = scenarios'[Len(scenarios')] ]_vars

\* An import was accepted: the pasted scenario is the last of the list and
\* the one on screen, after the scenario that was there before.
C15_Witness ==
  /\ Len(scenarios) = 2
  /\ scenarios[1].id = createDefaultScenario.id
  /\ scenarios[1] # createDefaultScenario
  /\ activeId = scenarios[2].id
  /\ activeId # scenarios[1].id
  /\ scenario = scenarios[2]
  /\ \E str \in PromptInputs : SameContent(scenario, str.value)

\* ---------------------------------------------------------------------------
\* The vertical rule chain of the displayed Result, step by step. The code's
\* single if / else-if chain under  if (verticalStatus !== 'FAIL')  is taken
\* as two steps: the penetration check, and the Richardson threshold check,
\* which an upper-layer reach never gets to.
PenetrationCheck(st, jetPenetrationReach) ==
  IF st.status # "FAIL" /\ jetPenetrationReach = "upper_layer_only"
  THEN [status |-> "FAIL", recs |-> Append(st.recs, "vert-strat-fail")]
  ELSE st

RichardsonCheck(st, Ri, options) ==
  IF st.status # "FAIL"
  THEN IF QGt(Ri, options.ri_threshold_fail)
       THEN [status |-> "FAIL", recs |-> Append(st.recs, "vert-ri-fail")]
       ELSE IF QGt(Ri, options.ri_threshold_warn)
       THEN [status |-> IF st.status = "WARN" THEN "WARN" ELSE "WARN",
             recs |-> Append(st.recs, "vert-ri-warn")]
       ELSE st
  ELSE st

ChainStart == [status |-> "PASS", recs |-> << >>]

AfterMomentum ==
  MomentumCheck(ChainStart, result.metrics.inletVelocity_m_s, TargetVelocity)

AfterPenetration ==
  PenetrationCheck(AfterMomentum, result.metrics.jetPenetrationReach)

AfterRichardson ==
  RichardsonCheck(AfterPenetration, result.metrics.richardsonNumber, scenario.options)

AfterTurnover ==
  TurnoverCheck(AfterRichardson, result.metrics.turnoverRatio, scenario.options)

\* PASS < WARN < FAIL
Severity(status) == IF status = "FAIL" THEN 2 ELSE IF status = "WARN" THEN 1 ELSE 0

\* The severity variable at the start and after each of the four steps.
SeverityTrace ==
  << Severity(ChainStart.status), Severity(AfterMomentum.status),
     Severity(AfterPenetration.status), Severity(AfterRichardson.status),
     Severity(AfterTurnover.status) >>

\* C16. Along the ordered steps momentum check, penetration check, Richardson
\* threshold check, turnover check, the severity never decreases from one
\* step to the next, and once it is FAIL it is FAIL at every later step; the
\* chain ends with the vertical status of the Result.
C16_SeverityNeverDecreases ==
  /\ \A i \in 1..4 : SeverityTrace[i] <= SeverityTrace[i + 1]
  /\ \A i \in 1..4 : \A j \in i..5 : SeverityTrace[i] = 2 => SeverityTrace[j] = 2
  /\ AfterTurnover.status = result.verticalStatus

\* WARN after the momentum check, FAIL after the penetration check, and a
\* turnover ratio below its threshold at the last step.
C16_Witness ==
  /\ SeverityTrace = << 0, 1, 2, 2, 2 >>
  /\ Lt(result.metrics.turnoverRatio, scenario.options.tor_threshold_warn)
  /\ result.verticalStatus = "FAIL"

\* ---------------------------------------------------------------------------
\* C17. The vertical status of the Result is the greatest severity over the
\* rules whose predicate holds (momentum: FAIL below half the target, WARN
\* below the target; penetration: FAIL for an upper-layer reach; Richardson:
\* FAIL above the failure threshold, WARN above the warning threshold;
\* turnover: WARN below its threshold; PASS if none), and the chain with the
\* Richardson check applied before the penetration check ends with the same
\* status.
RuleSeverities ==
  { 0,
    IF BelowHalfTarget THEN 2
    ELSE IF Lt(result.metrics.inletVelocity_m_s, TargetVelocity) THEN 1 ELSE 0,
    IF result.metrics.jetPenetrationReach = "upper_layer_only" THEN 2 ELSE 0,
    IF QGt(result.metrics.richardsonNumber, scenario.options.ri_threshold_fail) THEN 2
    ELSE IF RiAboveWarn THEN 1 ELSE 0,
    IF Lt(result.metrics.turnoverRatio, scenario.options.tor_threshold_warn) THEN 1 ELSE 0 }

Greatest(S) == CHOOSE n \in S : \A m \in S : m <= n

RichardsonBeforePenetration ==
  TurnoverCheck(
    PenetrationCheck(
      RichardsonCheck(AfterMomentum, result.metrics.richardsonNumber, scenario.options),
      result.metrics.jetPenetrationReach),
    result.metrics.turnoverRatio, scenario.options)

C17_MaxFold ==
  /\ Severity(result.verticalStatus) = Greatest(RuleSeverities)
  /\ RichardsonBeforePenetration.status = result.verticalStatus

\* Three rules hold with different severities: momentum and turnover say
\* WARN, Richardson says FAIL, and the reach is not the upper layer.
C17_Witness ==
  /\ AfterMomentum.status = "WARN"
  /\ result.metrics.jetPenetrationReach # "upper_layer_only"
  /\ QGt(result.metrics.richardsonNumber, scenario.options.ri_threshold_fail)
  /\ Lt(result.metrics.turnoverRatio, scenario.options.tor_threshold_warn)
  /\ result.verticalStatus = "FAIL"

\* ---------------------------------------------------------------------------
\* C18. Penetration check. The reach reported in the metrics is, for every
\* scenario on screen (also when the momentum check has failed),
\* 'upper_layer_only' if stable stratification is likely (dT >= 2 and Ri above
\* the warning threshold) and the inlet is above 50% of the depth, 'partial'
\* if stable stratification is likely and the inlet is above 25% of the depth,
\* 'bottom' otherwise; whenever it is 'upper_layer_only' the vertical status
\* is FAIL; and vert-strat-fail is recommended exactly when the reach is
\* 'upper_layer_only' and the momentum check had not produced FAIL.
StableStratLikely ==
  Ge(result.metrics.deltaT_inlet_vs_tank, I(2)) /\ RiAboveWarn

InletAbove(fraction) ==
  Gt(scenario.inlet.elevation_from_floor_m, Mul(fraction, scenario.tank.water_depth_m))

ReachByRule ==
  IF StableStratLikely /\ InletAbove(R(1, 2)) THEN "upper_layer_only"
  ELSE IF StableStratLikely /\ InletAbove(R(1, 4)) THEN "partial"
  ELSE "bottom"

C18_PenetrationCheck ==
  /\ result.metrics.jetPenetrationReach = ReachByRule
  /\ result.metrics.jetPenetrationReach = "upper_layer_only" =>
       result.verticalStatus = "FAIL"
  /\ Recommended(result, "vert-strat-fail") <=>
       (/\ result.metrics.jetPenetrationReach = "upper_layer_only"
        /\ AfterMomentum.status # "FAIL")

\* The momentum check has failed, the reach is computed all the same and is
\* the upper layer, and the stratification message is not emitted.
C18_Witness ==
  /\ AfterMomentum.status = "FAIL"
  /\ result.metrics.jetPenetrationReach = "upper_layer_only"
  /\ result.verticalStatus = "FAIL"
  /\ ~Recommended(result, "vert-strat-fail")

\* WARN after the momentum check, then FAIL by the upper-layer reach, with
\* the stratification message.
C18_WitnessFromWarn ==
  /\ AfterMomentum.status = "WARN"
  /\ result.metrics.jetPenetrationReach = "upper_layer_only"
  /\ result.verticalStatus = "FAIL"
  /\ Recommended(result, "vert-strat-fail")

\* The Richardson number is above the warning threshold and the inlet is high,
\* but the temperature difference is below 2: the reach is the bottom.
C18_WitnessSmallDeltaT ==
  /\ RiAboveWarn
  /\ InletAbove(R(1, 2))
  /\ Lt(result.metrics.deltaT_inlet_vs_tank, I(2))
  /\ result.metrics.jetPenetrationReach = "bottom"

\* ---------------------------------------------------------------------------
\* C19. Richardson threshold check. When the severity is not FAIL after the
\* momentum and penetration checks, a Richardson number above the failure
\* threshold sets the vertical status to FAIL with vert-ri-fail; else one above
\* the warning threshold sets it to WARN with vert-ri-warn, a WARN already
\* there staying WARN; when the severity is already FAIL the check is skipped;
\* so at most one of vert-strat-fail, vert-ri-fail and vert-ri-warn is among
\* the recommendations.
RiAboveFail ==
  QGt(result.metrics.richardsonNumber, scenario.options.ri_threshold_fail)

StratificationRecs ==
  { id \in {"vert-strat-fail", "vert-ri-fail", "vert-ri-warn"} : Recommended(result, id) }

C19_RichardsonCheck ==
  /\ (AfterPenetration.status # "FAIL" /\ RiAboveFail) =>
       /\ result.verticalStatus = "FAIL"
       /\ StratificationRecs = {"vert-ri-fail"}
  /\ (AfterPenetration.status # "FAIL" /\ ~RiAboveFail /\ RiAboveWarn) =>
       /\ result.verticalStatus = "WARN"
       /\ StratificationRecs = {"vert-ri-warn"}
  /\ (AfterPenetration.status # "FAIL" /\ ~RiAboveFail /\ ~RiAboveWarn) =>
       /\ result.verticalStatus = AfterTurnover.status
       /\ StratificationRecs = {}
  /\ AfterPenetration.status = "FAIL" =>
       /\ result.verticalStatus = "FAIL"
       /\ StratificationRecs \subseteq {"vert-strat-fail"}
  /\ Cardinality(StratificationRecs) <= 1

\* WARN after the momentum check, a Richardson number between the two
\* thresholds: WARN stays WARN, with vert-ri-warn.
C19_Witness ==
  /\ AfterPenetration.status = "WARN"
  /\ ~RiAboveFail /\ RiAboveWarn
  /\ result.verticalStatus = "WARN"
  /\ Recommended(result, "vert-ri-warn")

\* The check is skipped: FAIL by the penetration check, a Richardson number
\* above the warning threshold, and no Richardson recommendation.
C19_WitnessSkipped ==
  /\ AfterPenetration.status = "FAIL"
  /\ RiAboveWarn
  /\ StratificationRecs = {"vert-strat-fail"}

C19_WitnessFail ==
  /\ AfterPenetration.status = "PASS"
  /\ RiAboveFail
  /\ result.verticalStatus = "FAIL"
  /\ Recommended(result, "vert-ri-fail")

\* ---------------------------------------------------------------------------
\* C20. Turnover check. If the turnover ratio is below its warning threshold
\* and the severity reached so far is PASS, the vertical status is WARN; if
\* the severity reached so far is WARN or FAIL, the vertical status is that
\* severity; the vertical status is FAIL only if the severity was FAIL before
\* the turnover check.
TurnoverLow ==
  Lt(result.metrics.turnoverRatio, scenario.options.tor_threshold_warn)

C20_TurnoverCheck ==
  /\ (TurnoverLow /\ AfterRichardson.status = "PASS") => result.verticalStatus = "WARN"
  /\ (~TurnoverLow /\ AfterRichardson.status = "PASS") => result.verticalStatus = "PASS"
  /\ AfterRichardson.status \in {"WARN", "FAIL"} =>
       result.verticalStatus = AfterRichardson.status
  /\ result.verticalStatus = "FAIL" => AfterRichardson.status = "FAIL"

\* A low turnover ratio meets a severity of WARN and leaves it.
C20_Witness ==
  /\ TurnoverLow
  /\ AfterRichardson.status = "WARN"
  /\ result.verticalStatus = "WARN"
  /\ Recommended(result, "vert-tor")

\* A low turnover ratio alone: PASS becomes WARN.
C20_WitnessFromPass ==
  /\ TurnoverLow
  /\ AfterRichardson.status = "PASS"
  /\ result.verticalStatus = "WARN"

\* ------------------------------------------------------------------ C21

\* A weight that counts when its condition holds.
Term(cond, w) == IF cond THEN w ELSE I(0)

\* The sum the claim lists, from 0, in the claim's order.
WeightedSum ==
  LET tank == scenario.tank
      inlet == scenario.inlet
      outlet == scenario.outlet
      options == scenario.options
      depth == tank.water_depth_m
      close == Lt(MathAbs(Sub(inlet.elevation_from_floor_m,
                              outlet.elevation_from_floor_m)),
                  Mul(R(15, 100), depth))
      high == /\ Gt(inlet.elevation_from_floor_m, Mul(R(60, 100), depth))
              /\ Gt(outlet.elevation_from_floor_m, Mul(R(60, 100), depth))
      plus == Add(Add(Add(Add(I(0),
                Term(close, options.risk_vertical_proximity)),
                Term(high, options.risk_high_elevation)),
                Term(inlet.orientation = "radial", options.risk_orient_radial)),
                Term(inlet.orientation = "upward", options.risk_orient_upward))
      minus == Add(Add(Add(
                Term(inlet.orientation = "tangential", options.credit_orient_tangential),
                Term(inlet.orientation = "downward", options.credit_orient_downward)),
                Term(outlet.orientation = "opposite", options.credit_outlet_opposite)),
                Term(Ge(inlet.count, I(2)), options.credit_multiple_inlets))
  IN  Sub(plus, minus)

\* clamp_[0,100]: 0 below 0, 100 above 100, the number itself in between.
ClampedOnce(x) ==
  IF Lt(x, I(0)) THEN I(0) ELSE IF Gt(x, I(100)) THEN I(100) ELSE x

\* C21: the horizontal risk score of the displayed Result is the weighted sum
\* of the eight layout terms of its scenario, clamped to [0, 100] once, after
\* all the terms are summed.
C21_LayoutScore ==
  result.metrics.horizontalRiskScore = ClampedOnce(WeightedSum)

\* The sum is below 0 with a risk term in it, and the score is 0.
C21_Witness ==
  /\ Lt(WeightedSum, I(0))
  /\ scenario.inlet.orientation = "radial"
  /\ result.metrics.horizontalRiskScore = I(0)

\* Credits and risks both apply and the score lies strictly inside the range.
C21_WitnessInside ==
  /\ Ge(scenario.inlet.count, I(2))
  /\ scenario.outlet.orientation = "opposite"
  /\ Gt(result.metrics.horizontalRiskScore, I(0))
  /\ Lt(result.metrics.horizontalRiskScore, I(100))
  /\ result.metrics.horizontalRiskScore = WeightedSum

\* ------------------------------------------------------------------ C23

JetMoves == Gt(result.metrics.inletVelocity_m_s, R(1, 10000))

\* The worst case of the inflow temperatures against the tank temperature.
WorstCaseDeltaT ==
  LET water == scenario.water
      above == MathAbs(Sub(water.temperature_inflow_max_C, water.temperature_tank_initial_C))
      below == MathAbs(Sub(water.temperature_inflow_min_C, water.temperature_tank_initial_C))
  IN  IF IsNaN(above) \/ IsNaN(below) THEN NaN
      ELSE IF Lt(above, below) THEN below ELSE above

Isothermal == Lt(WorstCaseDeltaT, R(1, 100))

\* g * beta * dT * L over V^2, with beta = 2.1e-4 and L the reported length
\* scale.
RichardsonQuotient ==
  Quot(Mul(Mul(Mul(R(981, 100), R(21, 100000)), WorstCaseDeltaT),
           result.metrics.ri_lengthScale_m),
       Mul(result.metrics.inletVelocity_m_s, result.metrics.inletVelocity_m_s))

IsothermalRi ==
  /\ result.metrics.richardsonNumber = QZero
  /\ result.metrics.ri_numerator = I(0)
  /\ result.metrics.ri_denominator =
       Mul(result.metrics.inletVelocity_m_s, result.metrics.inletVelocity_m_s)

\* C23 as stated: for an inlet velocity above 0.0001 m/s the Richardson number
\* is 0 (numerator 0, denominator V^2) when the worst-case temperature
\* difference is below 0.01, and g * beta * dT * L / V^2 otherwise.
C23_RichardsonNumber ==
  JetMoves =>
    IF Isothermal THEN IsothermalRi
    ELSE result.metrics.richardsonNumber = RichardsonQuotient

\* C23: for an inlet velocity above 0.0001 m/s the Richardson number is 0
\* (numerator 0, denominator V^2) when the worst-case temperature difference
\* is below 0.01, and otherwise g * beta * dT * L / V^2, reported as 0 when
\* that quotient is NaN.
C23_RichardsonNumberUnlessNaN ==
  JetMoves =>
    IF Isothermal THEN IsothermalRi
    ELSE result.metrics.richardsonNumber =
           IF RichardsonQuotient.k = "nan" THEN QZero ELSE RichardsonQuotient

\* A stratifying jet under the tank_half policy: the worst-case difference is
\* not the inflow spread, and the Richardson number is the positive quotient.
C23_Witness ==
  /\ JetMoves
  /\ scenario.options.ri_length_scale = "tank_half"
  /\ ~Isothermal
  /\ WorstCaseDeltaT # MathAbs(Sub(scenario.water.temperature_inflow_max_C,
                                   scenario.water.temperature_inflow_min_C))
  /\ result.metrics.richardsonNumber = RichardsonQuotient
  /\ QGt(result.metrics.richardsonNumber, I(0))

\* The isothermal case with a moving jet.
C23_WitnessIsothermal ==
  /\ JetMoves
  /\ Isothermal
  /\ IsothermalRi

\* The quotient is NaN and the reported Richardson number is 0.
C23_WitnessNaN ==
  /\ JetMoves
  /\ ~Isothermal
  /\ RichardsonQuotient.k = "nan"
  /\ result.metrics.richardsonNumber = QZero

\* ------------------------------------------------------------------ C25

\* |inlet elevation - outlet elevation| < 15% of depth
ProximityCondition ==
  Lt(MathAbs(Sub(scenario.inlet.elevation_from_floor_m,
                 scenario.outlet.elevation_from_floor_m)),
     Mul(R(15, 100), scenario.tank.water_depth_m))

\* C25 as stated: whenever the vertical-proximity condition holds, the Result
\* contains the short-circuit recommendation horiz-prox.
C25_ProximityCalledOut ==
  ProximityCondition => Recommended(result, "horiz-prox")

\* C25: whenever the vertical-proximity condition holds and the horizontal
\* status is not PASS, the Result contains the short-circuit recommendation
\* horiz-prox.
C25_ProximityCalledOutUnlessPass ==
  (ProximityCondition /\ result.horizontalStatus # "PASS")
    => Recommended(result, "horiz-prox")

\* Inlet and outlet are close, the layout is only a warning, and the
\* short-circuit recommendation is there.
C25_Witness ==
  /\ ProximityCondition
  /\ result.horizontalStatus = "WARN"
  /\ scenario.inlet.orientation # "radial"
  /\ Recommended(result, "horiz-prox")

\* Inlet and outlet are close, the layout passes, and nothing calls it out.
C25_WitnessPass ==
  /\ ProximityCondition
  /\ result.horizontalStatus = "PASS"
  /\ ~Recommended(result, "horiz-prox")

\* ------------------------------------------------------------------ C29

BelowTarget == Lt(result.metrics.inletVelocity_m_s, TargetVelocity)

\* C29 as stated: a Result whose dominantRisk is insufficient_momentum has an
\* inlet velocity below the target velocity.
C29_MomentumOnlyBelowTarget ==
  result.dominantRisk = "insufficient_momentum" => BelowTarget

\* C29: a Result whose dominantRisk is insufficient_momentum, for a target
\* velocity that is not negative, has an inlet velocity below the target
\* velocity or a Richardson number that does not exceed ri_threshold_warn.
C29_MomentumBelowTargetOrFallback ==
  (result.dominantRisk = "insufficient_momentum" /\ ~Lt(TargetVelocity, I(0)))
    => (BelowTarget \/ ~RiAboveWarn)

\* The jet is below the target but not below half of it, and momentum is
\* named.
C29_Witness ==
  /\ result.dominantRisk = "insufficient_momentum"
  /\ BelowTarget
  /\ ~BelowHalfTarget

\* The fallback: the jet reaches the target, the vertical status was raised
\* by the turnover alone, and momentum is named.
C29_WitnessFallback ==
  /\ result.dominantRisk = "insufficient_momentum"
  /\ ~BelowTarget
  /\ ~RiAboveWarn
  /\ result.verticalStatus = "WARN"
  /\ Recommended(result, "vert-tor")
  /\ scenario.inlet.count = I(2) \/ scenario.options.ri_length_scale = "nozzle"

\* ------------------------------------------------------------ C24, C30

\* The diameter named by the rec-nozzle message of the displayed Result, in
\* millimetres.
NamedDiameter_mm ==
  toFixed0_mm(max_d_m_sq(scenario.operation, scenario.inlet, TargetVelocity))

\* d^2 = 4 * q_per_inlet / (pi * target velocity), with
\* q_per_inlet = total flow / max(1, inlet count).
ClaimedDiameterSq ==
  LET count == scenario.inlet.count
      atLeastOne == IF Lt(count, I(1)) THEN I(1) ELSE count
      q_per_inlet == Div(Div(scenario.operation.inflow_Lps, I(1000)), atLeastOne)
  IN  Div(Mul(I(4), q_per_inlet), Mul(R(355, 113), TargetVelocity))

\* The named number of millimetres is the claimed diameter, to the nearest
\* millimetre.
NamesClaimedDiameter ==
  IF IsFin(ClaimedDiameterSq) /\ IsFin(NamedDiameter_mm)
  THEN LET y == Mul(I(4000000), ClaimedDiameterSq)
           X == NamedDiameter_mm
       IN  /\ Ge(X, I(0))
           /\ X = I(0) \/ Le(Pow2(Sub(Mul(I(2), X), I(1))), y)
           /\ Lt(y, Pow2(Add(Mul(I(2), X), I(1))))
  ELSE NamedDiameter_mm = ClaimedDiameterSq

\* With nozzles of the claimed diameter the inlet velocity is the target.
TargetReachedAtClaimedDiameter ==
  computeInletVelocity(scenario.operation.inflow_Lps,
                       Mul(R(355, 113), Div(ClaimedDiameterSq, I(4))),
                       scenario.inlet.count) = TargetVelocity

NozzleRecommended == Recommended(result, "rec-nozzle")

C24_WitnessNoInlet ==
  /\ NozzleRecommended
  /\ scenario.inlet.count = I(0)
  /\ NamesClaimedDiameter
  /\ ~TargetReachedAtClaimedDiameter

\* C30: whenever rec-nozzle is emitted for a positive target velocity and a
\* nozzle diameter >= 0, the diameter it names is strictly smaller than the
\* scenario's nozzle diameter.
C30_NozzleShrinks ==
  (/\ NozzleRecommended
   /\ Gt(TargetVelocity, I(0))
   /\ Ge(scenario.inlet.nozzle_diameter_mm, I(0)))
    => Lt(NamedDiameter_mm, scenario.inlet.nozzle_diameter_mm)

\* The message names a smaller diameter than the scenario's.
C30_WitnessShrinks ==
  /\ NozzleRecommended
  /\ Gt(TargetVelocity, I(0))
  /\ Gt(NamedDiameter_mm, I(0))
  /\ Lt(NamedDiameter_mm, scenario.inlet.nozzle_diameter_mm)

\* ------------------------------------------------------------------ C22

\* The length scale of the policy, as the claim gives it.
PolicyLength ==
  LET depth == scenario.tank.water_depth_m
      quarter == Mul(R(25, 100), depth)
      diameter == scenario.tank.diameter_m
  IN  CASE scenario.options.ri_length_scale = "nozzle" ->
             Div(scenario.inlet.nozzle_diameter_mm, I(1000))
        [] scenario.options.ri_length_scale = "depth_quarter" ->
             (IF Lt(quarter, R(5, 100)) THEN R(5, 100)
              ELSE IF Gt(quarter, I(2)) THEN I(2) ELSE quarter)
        [] scenario.options.ri_length_scale = "tank_half" ->
             (IF IsNaN(depth) \/ IsNaN(diameter) THEN NaN
              ELSE Div(IF Lt(depth, diameter) THEN depth ELSE diameter, I(2)))

Floored(x) == IF Lt(x, R(5, 100)) THEN R(5, 100) ELSE x

\* The reported length scale is the policy's, floored at 0.05.
LengthScaleByPolicy ==
  LET L == result.metrics.ri_lengthScale_m
  IN  \/ L = Floored(PolicyLength)
      \/ IsNaN(L) /\ IsNaN(Floored(PolicyLength))

\* C22: metrics.ri_lengthScale_m is the length of the selected policy (nozzle
\* diameter in metres, 0.25 * depth clamped to [0.05, 2.0], or
\* min(diameter, depth) / 2) floored at 0.05, and so is at least 0.05.
C22_LengthScale ==
  /\ LengthScaleByPolicy
  /\ Ge(result.metrics.ri_lengthScale_m, R(5, 100))

\* The floor acts: a nozzle of 0 mm under the nozzle policy gives 0.05.
C22_WitnessFloor ==
  /\ scenario.options.ri_length_scale = "nozzle"
  /\ Lt(PolicyLength, R(5, 100))
  /\ result.metrics.ri_lengthScale_m = R(5, 100)

\* The water depth is missing and the length scale is NaN.
C22_WitnessNaN ==
  /\ scenario.tank.water_depth_m = Undef
  /\ IsNaN(result.metrics.ri_lengthScale_m)

\* ------------------------------------------------------------ C26, C27

\* C26: after any sequence of add, duplicate, delete, import, select and
\* update operations the scenario list is not empty.
C26_ListNeverEmpty == scenarios # << >>

\* Delete removed a scenario and one is left: the list is not empty here.
C26_WitnessDeleted ==
  /\ Len(scenarios) = 1
  /\ scenarios[1].id # createDefaultScenario.id

\* Two scenarios of the list carry the same id.
SharedId ==
  \E i, j \in DOMAIN scenarios : i # j /\ scenarios[i].id = scenarios[j].id

\* From a list of distinct ids, a step that shortens the list removes one
\* scenario, the active one, and leaves a list that is not empty with the id
\* of its last scenario active.
DeleteOfDistinctIds ==
  [][ (Len(scenarios') < Len(scenarios) /\ ~SharedId) =>
        /\ scenarios' = remaining(scenarios, activeId)
        /\ Len(scenarios') = Len(scenarios) - 1
        /\ scenarios' # << >>
        /\ activeId' = scenarios'[Len(scenarios')].id ]_vars

\* C27: the active id is the id of a scenario of the list, so that the active
\* scenario is not obtained through the fall-back to the first element.
C27_ActiveIdListed == \E i \in DOMAIN scenarios : scenarios[i].id = activeId

\* Delete made the last remaining scenario the active one.
C27_WitnessDeleted ==
  /\ Len(scenarios) = 2
  /\ now > 2
  /\ activeId = scenarios[2].id
  /\ scenarios[1].id # createDefaultScenario.id

\* ------------------------------------------------------------------ C28

\* C28: every scenario of the list carries the tank, inlet, outlet,
\* operation, water and options sections that analyzeScenario reads.
C28_ListEvaluable ==
  \A i \in DOMAIN scenarios : Sections \subseteq DOMAIN scenarios[i]

\* An accepted import with all six sections is in the list and evaluated.
C28_WitnessImported ==
  /\ Len(scenarios) = 2
  /\ scenarios[2].id = "import-1"
  /\ Sections \subseteq DOMAIN scenarios[2]
  /\ scenario = scenarios[2]
  /\ result = analyzeScenario(scenarios[2])

\* Every listed scenario carries the two sections the import asks for.
ListHasTankAndInlet ==
  \A i \in DOMAIN scenarios : {"tank", "inlet"} \subseteq DOMAIN scenarios[i]
====
